---- MODULE Spec2Model ----
(***************************************************************************)
(* State layer of the restaurant POS client: the auth, location, staff and *)
(* POS stores (zustand) and the backend / local persistence they talk to.  *)
(*                                                                         *)
(* An async store operation runs synchronously up to its first `await`,    *)
(* and is resumed when the awaited call settles.  Each operation is        *)
(* therefore a Start action (the synchronous prefix) and one resume action *)
(* per await; an in-flight call is a record in the store's task table      *)
(* holding the operation's captured locals.  The variable `ev` records     *)
(* what the step that produced the current state did.                      *)
(***************************************************************************)
EXTENDS Integers, Sequences, FiniteSets, TLC

VARIABLES
    \* auth store (src/store/auth.ts)
    isAuthenticated, user, authLoading, authError, authTasks,
    \* location store (src/unnamed/part_000)
    selectedLocation, locations, locLoading, locError, locTasks,
    \* backend table restaurant_locations
    dbLocations,
    \* POS store (src/store/index.ts)
    menuItems, orders, posLoading, posError, isOffline, offlinePayments, posTasks,
    \* backend tables menu_items, orders, inventory_transactions
    dbMenu, dbOrders, dbTransactions,
    \* IndexedDB store of offline payments, OfflineManager's queue
    idb, queue,
    \* staff store (src/store/staff.ts) and the backend's staff records
    staffMembers, staffLoading, staffError, staffTasks, dbStaff,
    \* what the last step did
    ev

authVars == <<isAuthenticated, user, authLoading, authError, authTasks>>
locVars  == <<selectedLocation, locations, locLoading, locError, locTasks>>
posVars  == <<menuItems, orders, posLoading, posError, isOffline, offlinePayments,
              posTasks>>
posEnv   == <<dbMenu, dbOrders, dbTransactions, idb, queue>>
staffVars == <<staffMembers, staffLoading, staffError, staffTasks, dbStaff>>
vars     == <<authVars, locVars, dbLocations, posVars, posEnv, staffVars, ev>>

\* what an action of one store leaves alone
NotAuth  == <<locVars, dbLocations, posVars, posEnv, staffVars>>
NotLoc   == <<authVars, posVars, posEnv, staffVars>>
NotPos   == <<authVars, locVars, dbLocations, staffVars>>
NotStaff == <<authVars, locVars, dbLocations, posVars, posEnv>>

-----------------------------------------------------------------------------
(* Bounds *)

MaxLocs == 2            \* rows of restaurant_locations
MaxRestaurants == 2     \* distinct restaurant ids
MaxUsers == 2           \* distinct user ids
MaxOrders == 2          \* orders in the backend
MaxSplit == 2           \* sub-payments of one split payment
MaxOffline == 2         \* payments recorded while offline
MaxItems == 1           \* menu items in the backend
MaxStock == 1           \* largest stock level and, plus one, largest quantity
MaxTransactions == 2    \* rows of inventory_transactions
MaxMenu == 2            \* menu items the menu editor works on

-----------------------------------------------------------------------------
(* Values *)

Null == [isNull |-> TRUE]       \* null / undefined object
NoId == 0                       \* undefined id (ids are 1, 2, ...)
Idle == [op |-> "idle"]         \* a free slot of a task table
NoError == "null"               \* error: null

LocationIds == 1..MaxLocs
Restaurants == 1..MaxRestaurants
UserIds == 1..MaxUsers

Roles == {"super-admin", "sub-super-admin", "store-manager", "cashier"}

SeqToSet(s) == {s[i] : i \in 1..Len(s)}

\* Array.prototype.find: the first element satisfying Test, Null when none
Find(s, Test(_)) ==
    LET hits == SelectSeq(s, Test) IN IF hits = <<>> THEN Null ELSE hits[1]

\* map()
Map(s, F(_)) == [i \in 1..Len(s) |-> F(s[i])]

-----------------------------------------------------------------------------
(* Users (src/src/types/index.ts, User).  Only the fields the stores read. *)

Managed == {Null} \cup {[ids |-> S] : S \in SUBSET Restaurants}

MkUser(i, r, rid, d, m) ==
    [id |-> i, role |-> r, restaurantId |-> rid, defaultLocationId |-> d,
     managedRestaurantIds |-> m, preferredLanguage |-> "en"]

\* managedRestaurantIds is only read for a sub-super-admin, restaurantId only
\* for the other roles; the fields nobody reads are left undefined.
Users ==
    {MkUser(1, "store-manager", rid, d, Null) :
        rid \in {NoId} \cup Restaurants, d \in {NoId} \cup 1..(MaxLocs + 1)}
    \cup {MkUser(1, "super-admin", NoId, d, Null) : d \in {NoId} \cup LocationIds}
    \cup {MkUser(1, "sub-super-admin", NoId, d, m) :
        d \in {NoId} \cup LocationIds, m \in Managed}

-----------------------------------------------------------------------------
(* Backend table restaurant_locations, in wire format (snake_case) *)

Row(i, a, r) == [id |-> i, name |-> i, is_active |-> a, restaurant_id |-> r]

\* ReplaceById that adds the updated entity when no entry has its id
ReplaceById_upsert(items, id, updated) ==
    IF \E i \in 1..Len(items) : items[i].id = id
    THEN [i \in 1..Len(items) |-> IF items[i].id = id THEN updated ELSE items[i]]
    ELSE Append(items, updated)

\* collection.map(item => item.id === id ? updated : item)
ReplaceById(items, id, updated) ==
    [i \in 1..Len(items) |-> IF items[i].id = id THEN updated ELSE items[i]]

\* The tables the backend may hold when the client starts: n rows with
\* distinct ids and names, any activity flag and owner.
InitialTables ==
    UNION {
        {{Row(i, a[i], r[i]) : i \in 1..n} :
            a \in [1..n -> BOOLEAN], r \in [1..n -> Restaurants]}
        : n \in 0..MaxLocs}

\* .order('name'): the rows of S as a sequence, ascending by name
OrderByName(S) ==
    CHOOSE s \in [1..Cardinality(S) -> S] :
        /\ \A i, j \in 1..Cardinality(S) : i # j => s[i] # s[j]
        /\ \A i, j \in 1..Cardinality(S) : i < j => s[i].name <= s[j].name

\* LocationsQuery without the restaurant filter of the ordinary roles
LocationsQuery_noEq(u, T) ==
    OrderByName(
        IF u.role = "sub-super-admin" /\ u.managedRestaurantIds # Null
        THEN {r \in T : r.restaurant_id \in u.managedRestaurantIds.ids}
        ELSE T)

\* LocationsQuery without the managed-restaurants filter
LocationsQuery_noIn(u, T) ==
    OrderByName(
        IF u.role # "super-admin" /\ u.role # "sub-super-admin"
        THEN {r \in T : r.restaurant_id = u.restaurantId}
        ELSE T)

\* The query fetchLocations builds for `u` and its result on table T
LocationsQuery(u, T) ==
    OrderByName(
        IF u.role # "super-admin" /\ u.role # "sub-super-admin"
        THEN {r \in T : r.restaurant_id = u.restaurantId}
        ELSE IF u.role = "sub-super-admin" /\ u.managedRestaurantIds # Null
        THEN {r \in T : r.restaurant_id \in u.managedRestaurantIds.ids}
        ELSE T)

\* wire row -> RestaurantLocation
ToLocation(row) ==
    [id |-> row.id, name |-> row.name, isActive |-> row.is_active,
     restaurant_id |-> row.restaurant_id]

-----------------------------------------------------------------------------
(* Task tables *)

\* Slots for the location store's calls in flight (one call at a time)
LocTaskIds == {"loc1"}

\* Slots for the auth store's calls in flight (two may overlap)
AuthTaskIds == {"auth1", "auth2"}

\* Slots for the POS store's and the staff store's calls in flight
PosTaskIds == {"pos1"}
\* two calls of the POS store in flight at once
OverlapTaskIds == {"pos1", "pos2"}
StaffTaskIds == {"staff1"}

\* What a step did: the operation, how far it got ("pending": suspended at an
\* await; "ok": returned; "caught": failed, reported in error and returned
\* normally; "thrown": failed, reported in error and re-thrown), the call's
\* locals, for a failure what failed, and the store fields of interest as
\* they were before the step (Null when not recorded).
Event(o, out, task, why, before) ==
    [op |-> o, outcome |-> out, task |-> task, why |-> why, before |-> before]

-----------------------------------------------------------------------------
(* Auth store: setUser (synchronous) *)

setUser(u) ==
    /\ user' = u
    /\ isAuthenticated' = (u # Null)
    /\ authError' = NoError
    /\ ev' = Event("setUser", "ok", [user |-> u], "", Null)
    /\ UNCHANGED <<authLoading, authTasks, NotAuth>>

-----------------------------------------------------------------------------
(* Auth store (src/store/auth.ts) *)

AuthRoles == {"store-manager", "super-admin"}
Languages == {"en", "es"}

\* Rows of user_profiles the backend may return for user id i;
\* preferred_language "" stands for a missing value.
Profiles(i) ==
    {[id |-> i, role |-> r, restaurant_id |-> NoId, default_location_id |-> NoId,
      managed_restaurant_ids |-> Null, preferred_language |-> l] :
        r \in AuthRoles, l \in {"", "es"}}

\* signIn: the User built from the auth user id and its profile row
ToUser(authId, profileData) ==
    [id |-> authId,
     role |-> profileData.role,
     restaurantId |-> profileData.restaurant_id,
     defaultLocationId |-> profileData.default_location_id,
     managedRestaurantIds |-> profileData.managed_restaurant_ids,
     preferredLanguage |-> IF profileData.preferred_language # ""
                           THEN profileData.preferred_language ELSE "en"]

AuthStart(t, task) ==
    /\ authTasks[t] = Idle
    /\ authLoading' = TRUE
    /\ authError' = NoError
    /\ authTasks' = [authTasks EXCEPT ![t] = task]
    /\ ev' = Event(task.op, "pending", task, "", Null)
    /\ UNCHANGED <<isAuthenticated, user, NotAuth>>

\* catch of signUp, signOut, updateUserRole, updateUserLanguage and
\* resetPasswordForEmail: report, do not re-throw
AuthCatch(t, why) ==
    /\ authError' = "BackendError"
    /\ authLoading' = FALSE
    /\ authTasks' = [authTasks EXCEPT ![t] = Idle]
    /\ ev' = Event(authTasks[t].op, "caught", authTasks[t], why, Null)
    /\ UNCHANGED <<isAuthenticated, user, NotAuth>>

\* signIn_catch that reports the failure and leaves the user as it was
signIn_catch_keepUser(t, why) ==
    /\ authError' = "BackendError"
    /\ authLoading' = FALSE
    /\ authTasks' = [authTasks EXCEPT ![t] = Idle]
    /\ ev' = Event("signIn", "caught", authTasks[t], why,
                   [user |-> user, isAuthenticated |-> isAuthenticated])
    /\ UNCHANGED <<isAuthenticated, user, NotAuth>>

\* catch of signIn: report and sign out locally
signIn_catch(t, why) ==
    /\ authError' = "BackendError"
    /\ authLoading' = FALSE
    /\ isAuthenticated' = FALSE
    /\ user' = Null
    /\ authTasks' = [authTasks EXCEPT ![t] = Idle]
    /\ ev' = Event("signIn", "caught", authTasks[t], why,
                   [user |-> user, isAuthenticated |-> isAuthenticated])
    /\ UNCHANGED <<NotAuth>>

signIn_start(t) ==
    /\ t \in AuthTaskIds
    /\ AuthStart(t, [op |-> "signIn", pc |-> "signInWithPassword", id |-> NoId])

\* signInWithPassword settled: an error, no user, or the auth user `i`
signIn_auth(t, i, result) ==
    /\ authTasks[t].op = "signIn"
    /\ authTasks[t].pc = "signInWithPassword"
    /\ CASE result = "authError" -> signIn_catch(t, "authError")
         [] result = "noUser" -> signIn_catch(t, "noUser")
         [] OTHER ->
            /\ authTasks' = [authTasks EXCEPT ![t].pc = "profile", ![t].id = i]
            /\ ev' = Event("signIn", "pending", authTasks'[t], "", Null)
            /\ UNCHANGED <<isAuthenticated, user, authLoading, authError,
                           NotAuth>>

\* the profile select settled with an error
signIn_profileError(t) ==
    /\ authTasks[t].op = "signIn"
    /\ authTasks[t].pc = "profile"
    /\ signIn_catch(t, "profileError")

\* the profile select settled with a row: sign in, then await the
\* last_login_at update
signIn_profile(t, profileData) ==
    /\ authTasks[t].op = "signIn"
    /\ authTasks[t].pc = "profile"
    /\ profileData.id = authTasks[t].id
    /\ user' = ToUser(authTasks[t].id, profileData)
    /\ isAuthenticated' = TRUE
    /\ authLoading' = FALSE
    /\ authError' = NoError
    /\ authTasks' = [authTasks EXCEPT ![t].pc = "lastLogin"]
    /\ ev' = Event("signIn", "pending", authTasks'[t], "", Null)
    /\ UNCHANGED <<NotAuth>>


\* signIn whose last-login update is checked like the other backend results
signIn_lastLogin_checked(t, updateFailed) ==
    /\ authTasks[t].op = "signIn"
    /\ authTasks[t].pc = "lastLogin"
    /\ IF updateFailed
       THEN signIn_catch(t, "lastLoginError")
       ELSE /\ authTasks' = [authTasks EXCEPT ![t] = Idle]
            /\ ev' = Event("signIn", "ok", authTasks[t], "", Null)
            /\ UNCHANGED <<isAuthenticated, user, authLoading, authError,
                           NotAuth>>

\* the last_login_at update settled; its result is not looked at
signIn_lastLogin(t, updateFailed) ==
    /\ authTasks[t].op = "signIn"
    /\ authTasks[t].pc = "lastLogin"
    /\ authTasks' = [authTasks EXCEPT ![t] = Idle]
    /\ ev' = Event("signIn", "ok", authTasks[t], IF updateFailed THEN "lastLoginError" ELSE "", Null)
    /\ UNCHANGED <<isAuthenticated, user, authLoading, authError,
                   NotAuth>>

signUp_start(t) ==
    /\ t \in AuthTaskIds
    /\ AuthStart(t, [op |-> "signUp", pc |-> "signUp", id |-> NoId])

signUp_auth(t, result) ==
    /\ authTasks[t].op = "signUp"
    /\ authTasks[t].pc = "signUp"
    /\ CASE result = "authError" -> AuthCatch(t, "authError")
         [] result = "noUser" -> AuthCatch(t, "noUser")
         [] OTHER ->
            /\ authTasks' = [authTasks EXCEPT ![t].pc = "profile"]
            /\ ev' = Event("signUp", "pending", authTasks'[t], "", Null)
            /\ UNCHANGED <<isAuthenticated, user, authLoading, authError,
                           NotAuth>>


\* signUp that marks the store authenticated once the profile is created
signUp_profile_signsIn(t, failed) ==
    /\ authTasks[t].op = "signUp"
    /\ authTasks[t].pc = "profile"
    /\ IF failed
       THEN AuthCatch(t, "profileError")
       ELSE /\ authLoading' = FALSE
            /\ isAuthenticated' = TRUE
            /\ authTasks' = [authTasks EXCEPT ![t] = Idle]
            /\ ev' = Event("signUp", "ok", authTasks[t], "", Null)
            /\ UNCHANGED <<user, authError, NotAuth>>

signUp_profile(t, failed) ==
    /\ authTasks[t].op = "signUp"
    /\ authTasks[t].pc = "profile"
    /\ IF failed
       THEN AuthCatch(t, "profileError")
       ELSE /\ authLoading' = FALSE
            /\ authTasks' = [authTasks EXCEPT ![t] = Idle]
            /\ ev' = Event("signUp", "ok", authTasks[t], "", Null)
            /\ UNCHANGED <<isAuthenticated, user, authError, NotAuth>>

signOut_start(t) ==
    /\ t \in AuthTaskIds
    /\ AuthStart(t, [op |-> "signOut", pc |-> "signOut", id |-> NoId])

\* signOut_done that clears the user but leaves isAuthenticated as it was
signOut_done_userOnly(t, failed) ==
    /\ authTasks[t].op = "signOut"
    /\ IF failed
       THEN AuthCatch(t, "signOut")
       ELSE /\ user' = Null
            /\ authLoading' = FALSE
            /\ authTasks' = [authTasks EXCEPT ![t] = Idle]
            /\ ev' = Event("signOut", "ok", authTasks[t], "", Null)
            /\ UNCHANGED <<isAuthenticated, authError, NotAuth>>

signOut_done(t, failed) ==
    /\ authTasks[t].op = "signOut"
    /\ IF failed
       THEN AuthCatch(t, "signOut")
       ELSE /\ user' = Null
            /\ isAuthenticated' = FALSE
            /\ authLoading' = FALSE
            /\ authTasks' = [authTasks EXCEPT ![t] = Idle]
            /\ ev' = Event("signOut", "ok", authTasks[t], "", Null)
            /\ UNCHANGED <<authError, NotAuth>>

updateUserRole_start(t, userId, role) ==
    /\ t \in AuthTaskIds
    /\ AuthStart(t, [op |-> "updateUserRole", pc |-> "update", id |-> userId,
                  role |-> role])


\* updateUserRole that patches the signed-in user whatever userId was given
updateUserRole_done_anyUser(t, failed) ==
    /\ authTasks[t].op = "updateUserRole"
    /\ IF failed
       THEN AuthCatch(t, "update")
       ELSE /\ user' = IF user # Null
                       THEN [user EXCEPT !.role = authTasks[t].role]
                       ELSE user
            /\ authLoading' = FALSE
            /\ authTasks' = [authTasks EXCEPT ![t] = Idle]
            /\ ev' = Event("updateUserRole", "ok", authTasks[t], "", Null)
            /\ UNCHANGED <<isAuthenticated, authError, NotAuth>>

updateUserRole_done(t, failed) ==
    /\ authTasks[t].op = "updateUserRole"
    /\ IF failed
       THEN AuthCatch(t, "update")
       ELSE /\ user' = IF user # Null /\ user.id = authTasks[t].id
                       THEN [user EXCEPT !.role = authTasks[t].role]
                       ELSE user
            /\ authLoading' = FALSE
            /\ authTasks' = [authTasks EXCEPT ![t] = Idle]
            /\ ev' = Event("updateUserRole", "ok", authTasks[t], "", Null)
            /\ UNCHANGED <<isAuthenticated, authError, NotAuth>>

updateUserLanguage_start(t, language) ==
    /\ t \in AuthTaskIds
    /\ AuthStart(t, [op |-> "updateUserLanguage", pc |-> "changeLanguage",
                  id |-> NoId, language |-> language])

\* updateUserLanguage_changed without the else branch that ends the loading
\* when nobody is signed in
updateUserLanguage_changed_noElse(t, failed) ==
    /\ authTasks[t].op = "updateUserLanguage"
    /\ authTasks[t].pc = "changeLanguage"
    /\ IF failed
       THEN AuthCatch(t, "changeLanguage")
       ELSE IF user # Null
       THEN /\ authTasks' = [authTasks EXCEPT ![t].pc = "update", ![t].id = user.id]
            /\ ev' = Event("updateUserLanguage", "pending", authTasks'[t], "", Null)
            /\ UNCHANGED <<isAuthenticated, user, authLoading, authError,
                           NotAuth>>
       ELSE /\ authTasks' = [authTasks EXCEPT ![t] = Idle]
            /\ ev' = Event("updateUserLanguage", "ok", authTasks[t], "", Null)
            /\ UNCHANGED <<isAuthenticated, user, authLoading, authError, NotAuth>>

\* i18next.changeLanguage settled; the user is read after it
updateUserLanguage_changed(t, failed) ==
    /\ authTasks[t].op = "updateUserLanguage"
    /\ authTasks[t].pc = "changeLanguage"
    /\ IF failed
       THEN AuthCatch(t, "changeLanguage")
       ELSE IF user # Null
       THEN /\ authTasks' = [authTasks EXCEPT ![t].pc = "update", ![t].id = user.id]
            /\ ev' = Event("updateUserLanguage", "pending", authTasks'[t], "", Null)
            /\ UNCHANGED <<isAuthenticated, user, authLoading, authError,
                           NotAuth>>
       ELSE /\ authLoading' = FALSE
            /\ authTasks' = [authTasks EXCEPT ![t] = Idle]
            /\ ev' = Event("updateUserLanguage", "ok", authTasks[t], "", Null)
            /\ UNCHANGED <<isAuthenticated, user, authError, NotAuth>>

updateUserLanguage_done(t, failed) ==
    /\ authTasks[t].op = "updateUserLanguage"
    /\ authTasks[t].pc = "update"
    /\ IF failed
       THEN AuthCatch(t, "update")
       ELSE /\ user' = IF user # Null
                       THEN [user EXCEPT !.preferredLanguage = authTasks[t].language]
                       ELSE Null
            /\ authLoading' = FALSE
            /\ authTasks' = [authTasks EXCEPT ![t] = Idle]
            /\ ev' = Event("updateUserLanguage", "ok", authTasks[t], "", Null)
            /\ UNCHANGED <<isAuthenticated, authError, NotAuth>>

resetPasswordForEmail_start(t) ==
    /\ t \in AuthTaskIds
    /\ AuthStart(t, [op |-> "resetPasswordForEmail", pc |-> "reset", id |-> NoId])

resetPasswordForEmail_done(t, failed) ==
    /\ authTasks[t].op = "resetPasswordForEmail"
    /\ IF failed
       THEN AuthCatch(t, "reset")
       ELSE /\ authLoading' = FALSE
            /\ authTasks' = [authTasks EXCEPT ![t] = Idle]
            /\ ev' = Event("resetPasswordForEmail", "ok", authTasks[t], "", Null)
            /\ UNCHANGED <<isAuthenticated, user, authError, NotAuth>>

-----------------------------------------------------------------------------
(* Location store *)

\* setSelectedLocation: the write of default_location_id to user_profiles is
\* fire-and-forget and changes no store state.
setSelectedLocation(location) ==
    /\ selectedLocation' = location
    /\ ev' = Event("setSelectedLocation", "ok", [location |-> location], "", Null)
    /\ UNCHANGED <<locations, locLoading, locError, locTasks, dbLocations, NotLoc>>

\* SelectAfterFetch preferring an active location to the stored default
SelectAfterFetch_activeFirst(u, locs, sel) ==
    LET IsDefault(loc) == loc.id = u.defaultLocationId
        IsActive(loc) == loc.isActive
        defaultLocation == IF u.defaultLocationId # NoId
                           THEN Find(locs, IsDefault) ELSE Null
        activeLocation == Find(locs, IsActive)
    IN  IF activeLocation # Null THEN activeLocation
        ELSE IF defaultLocation # Null THEN defaultLocation
        ELSE IF Len(locs) > 0 THEN locs[1]
        ELSE sel

\* SelectAfterFetch falling back to the first location without looking for
\* an active one
SelectAfterFetch_firstOnly(u, locs, sel) ==
    LET IsDefault(loc) == loc.id = u.defaultLocationId
        defaultLocation == IF u.defaultLocationId # NoId
                           THEN Find(locs, IsDefault) ELSE Null
    IN  IF defaultLocation # Null THEN defaultLocation
        ELSE IF Len(locs) > 0 THEN locs[1]
        ELSE sel

\* The location fetchLocations selects once `locs` is published for `u`;
\* `sel` is the selection before.
SelectAfterFetch(u, locs, sel) ==
    LET IsDefault(loc) == loc.id = u.defaultLocationId
        IsActive(loc) == loc.isActive
        defaultLocation == IF u.defaultLocationId # NoId
                           THEN Find(locs, IsDefault) ELSE Null
        activeLocation == Find(locs, IsActive)
    IN  IF defaultLocation # Null THEN defaultLocation
        ELSE IF activeLocation # Null THEN activeLocation
        ELSE IF Len(locs) > 0 THEN locs[1]
        ELSE sel

\* fetchLocations up to `await query`; u is useAuthStore.getState().user
fetchLocations_start(t, u) ==
    /\ locTasks[t] = Idle
    /\ locError' = NoError
    /\ IF u = Null
       THEN /\ locations' = <<>>
            /\ locLoading' = FALSE
            /\ ev' = Event("fetchLocations", "ok", [user |-> Null], "", Null)
            /\ UNCHANGED locTasks
       ELSE /\ locLoading' = TRUE
            /\ locTasks' = [locTasks EXCEPT ![t] = [op |-> "fetchLocations", user |-> u]]
            /\ ev' = Event("fetchLocations", "pending", locTasks'[t], "", Null)
            /\ UNCHANGED locations
    /\ UNCHANGED <<selectedLocation, dbLocations, NotLoc>>

\* the query returned rows
fetchLocations_data(t) ==
    /\ locTasks[t].op = "fetchLocations"
    /\ LET u == locTasks[t].user
           data == LocationsQuery(u, dbLocations)
           locs == Map(data, ToLocation)
       IN  /\ locations' = locs
           /\ locLoading' = FALSE
           /\ selectedLocation' = SelectAfterFetch(u, locs, selectedLocation)
           /\ ev' = Event("fetchLocations", "ok", locTasks[t], "", Null)
    /\ locTasks' = [locTasks EXCEPT ![t] = Idle]
    /\ UNCHANGED <<locError, dbLocations, NotLoc>>

\* the query returned an error
fetchLocations_error(t) ==
    /\ locTasks[t].op = "fetchLocations"
    /\ locError' = "BackendError"
    /\ locLoading' = FALSE
    /\ ev' = Event("fetchLocations", "caught", locTasks[t], "query",
                   [locations |-> locations, selectedLocation |-> selectedLocation])
    /\ locTasks' = [locTasks EXCEPT ![t] = Idle]
    /\ UNCHANGED <<locations, selectedLocation, dbLocations, NotLoc>>

\* what a location-store step is compared with
LocBefore ==
    [locations |-> locations, selectedLocation |-> selectedLocation,
     dbLocations |-> dbLocations]

\* LocThrow dropping the cached locations
LocThrow_clearing(o, task, why) ==
    /\ locError' = "Error"
    /\ locLoading' = FALSE
    /\ locations' = <<>>
    /\ ev' = Event(o, "thrown", task, why, LocBefore)
    /\ UNCHANGED <<selectedLocation, locTasks, dbLocations, NotLoc>>

\* catch { set({ error, isLoading: false }); toast.error(...); throw error }
\* before any call went out
LocThrow(o, task, why) ==
    /\ locError' = "Error"
    /\ locLoading' = FALSE
    /\ ev' = Event(o, "thrown", task, why, LocBefore)
    /\ UNCHANGED <<locations, selectedLocation, locTasks, dbLocations, NotLoc>>

\* the same once the awaited call of task t settled with an error
LocCatchThrow(t, o) ==
    /\ locTasks[t].op = o
    /\ locError' = "BackendError"
    /\ locLoading' = FALSE
    /\ ev' = Event(o, "thrown", locTasks[t], "query", LocBefore)
    /\ locTasks' = [locTasks EXCEPT ![t] = Idle]
    /\ UNCHANGED <<locations, selectedLocation, dbLocations, NotLoc>>

\* the id the backend gives the next row of restaurant_locations
NewLocationId ==
    CHOOSE i \in 1..(Cardinality(dbLocations) + 1) :
        /\ \A r \in dbLocations : r.id # i
        /\ \A j \in 1..(i - 1) : \E r \in dbLocations : r.id = j

\* createLocation up to the insert; u is useAuthStore.getState().user
createLocation_start(t, u, isActive) ==
    /\ locTasks[t] = Idle
    /\ IF u = Null \/ u.restaurantId = NoId
       THEN LocThrow("createLocation", [user |-> u],
                     "User not associated with a restaurant")
       ELSE /\ Cardinality(dbLocations) < MaxLocs
            /\ locLoading' = TRUE
            /\ locError' = NoError
            /\ locTasks' = [locTasks EXCEPT ![t] =
                    [op |-> "createLocation", is_active |-> isActive,
                     restaurant_id |-> u.restaurantId]]
            /\ ev' = Event("createLocation", "pending", locTasks'[t], "", LocBefore)
            /\ UNCHANGED <<locations, selectedLocation, dbLocations, NotLoc>>

\* the insert returned the new row
createLocation_inserted(t) ==
    /\ locTasks[t].op = "createLocation"
    /\ LET data == Row(NewLocationId, locTasks[t].is_active, locTasks[t].restaurant_id)
       IN  /\ dbLocations' = dbLocations \cup {data}
           /\ locations' = Append(locations, ToLocation(data))
    /\ locLoading' = FALSE
    /\ ev' = Event("createLocation", "ok", locTasks[t], "", LocBefore)
    /\ locTasks' = [locTasks EXCEPT ![t] = Idle]
    /\ UNCHANGED <<selectedLocation, locError, NotLoc>>

createLocation_error(t) ==
    /\ locTasks[t].op = "createLocation"
    /\ LocCatchThrow(t, "createLocation")

\* get().locations.find(loc => loc.id === id)
FindLocation(id) ==
    LET WithId(loc) == loc.id = id IN Find(locations, WithId)

\* toggleLocationStatus up to the update
toggleLocationStatus_start(t, id) ==
    /\ locTasks[t] = Idle
    /\ IF FindLocation(id) = Null
       THEN LocThrow("toggleLocationStatus", [id |-> id], "Location not found")
       ELSE /\ locLoading' = TRUE
            /\ locError' = NoError
            /\ locTasks' = [locTasks EXCEPT ![t] =
                    [op |-> "toggleLocationStatus", id |-> id,
                     is_active |-> ~FindLocation(id).isActive]]
            /\ ev' = Event("toggleLocationStatus", "pending", locTasks'[t], "",
                           LocBefore)
            /\ UNCHANGED <<locations, selectedLocation, dbLocations, NotLoc>>

\* the update returned the updated row
toggleLocationStatus_updated(t) ==
    /\ locTasks[t].op = "toggleLocationStatus"
    /\ \E row \in dbLocations : row.id = locTasks[t].id
    /\ LET row == CHOOSE r \in dbLocations : r.id = locTasks[t].id
           data == [row EXCEPT !.is_active = locTasks[t].is_active]
           updatedLocation == ToLocation(data)
       IN  /\ dbLocations' = (dbLocations \ {row}) \cup {data}
           /\ locations' = ReplaceById(locations, locTasks[t].id, updatedLocation)
           /\ selectedLocation' =
                 IF selectedLocation # Null /\ selectedLocation.id = locTasks[t].id
                 THEN updatedLocation ELSE selectedLocation
    /\ locLoading' = FALSE
    /\ ev' = Event("toggleLocationStatus", "ok", locTasks[t], "", LocBefore)
    /\ locTasks' = [locTasks EXCEPT ![t] = Idle]
    /\ UNCHANGED <<locError, NotLoc>>

toggleLocationStatus_error(t) ==
    /\ locTasks[t].op = "toggleLocationStatus"
    /\ LocCatchThrow(t, "toggleLocationStatus")

\* updateLocation up to the update; of `updates` the activity flag is kept
updateLocation_start(t, id, isActive) ==
    /\ locTasks[t] = Idle
    /\ locLoading' = TRUE
    /\ locError' = NoError
    /\ locTasks' = [locTasks EXCEPT ![t] =
            [op |-> "updateLocation", id |-> id, is_active |-> isActive]]
    /\ ev' = Event("updateLocation", "pending", locTasks'[t], "", LocBefore)
    /\ UNCHANGED <<locations, selectedLocation, dbLocations, NotLoc>>

\* the update returned the updated row
updateLocation_updated(t) ==
    /\ locTasks[t].op = "updateLocation"
    /\ \E row \in dbLocations : row.id = locTasks[t].id
    /\ LET row == CHOOSE r \in dbLocations : r.id = locTasks[t].id
           data == [row EXCEPT !.is_active = locTasks[t].is_active]
           updatedLocation == ToLocation(data)
       IN  /\ dbLocations' = (dbLocations \ {row}) \cup {data}
           /\ locations' = ReplaceById(locations, locTasks[t].id, updatedLocation)
           /\ selectedLocation' =
                 IF selectedLocation # Null /\ selectedLocation.id = locTasks[t].id
                 THEN updatedLocation ELSE selectedLocation
    /\ locLoading' = FALSE
    /\ ev' = Event("updateLocation", "ok", locTasks[t], "", LocBefore)
    /\ locTasks' = [locTasks EXCEPT ![t] = Idle]
    /\ UNCHANGED <<locError, NotLoc>>

\* the update failed, or .single() found no row with the id
updateLocation_error(t) ==
    /\ locTasks[t].op = "updateLocation"
    /\ LocCatchThrow(t, "updateLocation")

deleteLocation_start(t, id) ==
    /\ locTasks[t] = Idle
    /\ locLoading' = TRUE
    /\ locError' = NoError
    /\ locTasks' = [locTasks EXCEPT ![t] = [op |-> "deleteLocation", id |-> id]]
    /\ ev' = Event("deleteLocation", "pending", locTasks'[t], "", LocBefore)
    /\ UNCHANGED <<locations, selectedLocation, dbLocations, NotLoc>>

\* deleteLocation_deleted leaving the selection as it was
deleteLocation_deleted_keepSelected(t) ==
    /\ locTasks[t].op = "deleteLocation"
    /\ LET Other(location) == location.id # locTasks[t].id
       IN  /\ dbLocations' = {r \in dbLocations : r.id # locTasks[t].id}
           /\ locations' = SelectSeq(locations, Other)
    /\ locLoading' = FALSE
    /\ ev' = Event("deleteLocation", "ok", locTasks[t], "", LocBefore)
    /\ locTasks' = [locTasks EXCEPT ![t] = Idle]
    /\ UNCHANGED <<selectedLocation, locError, NotLoc>>

\* the delete returned without an error
deleteLocation_deleted(t) ==
    /\ locTasks[t].op = "deleteLocation"
    /\ LET Other(location) == location.id # locTasks[t].id
           newLocations == SelectSeq(locations, Other)
       IN  /\ dbLocations' = {r \in dbLocations : r.id # locTasks[t].id}
           /\ locations' = newLocations
           /\ selectedLocation' =
                 IF selectedLocation # Null /\ selectedLocation.id = locTasks[t].id
                 THEN IF Len(newLocations) > 0 THEN newLocations[1] ELSE Null
                 ELSE selectedLocation
    /\ locLoading' = FALSE
    /\ ev' = Event("deleteLocation", "ok", locTasks[t], "", LocBefore)
    /\ locTasks' = [locTasks EXCEPT ![t] = Idle]
    /\ UNCHANGED <<locError, NotLoc>>

deleteLocation_error(t) ==
    /\ locTasks[t].op = "deleteLocation"
    /\ LocCatchThrow(t, "deleteLocation")

-----------------------------------------------------------------------------
(* POS store (src/store/index.ts): shared pieces *)

NoNumber == -1                  \* undefined number (tipAmount?: number)
OrderIds == 1..MaxOrders
OfflineIds == {"offline_a"}  \* `offline_${Date.now()}_${random}`

MkOrder(i, st, ps) == [id |-> i, status |-> st, paymentStatus |-> ps]

\* x || 0
OrZero(x) == IF x = NoNumber THEN 0 ELSE x

\* details?.f for the optional `details` argument of processPayment
Opt(details, f) == IF details = Null THEN NoNumber ELSE details[f]

\* A call handed to the backend (queries.*) or to IndexedDB, and its reply
Call(fn, args) == [fn |-> fn, args |-> args]
NoResp == [status |-> "none"]
Ok(data) == [status |-> "ok", data |-> data]
Err == [status |-> "error"]

\* getOrders / getMenuItems: the rows of a table as a list, by id
ById(S) ==
    CHOOSE s \in [1..Cardinality(S) -> S] :
        \A i, j \in 1..Cardinality(S) : i < j => s[i].id < s[j].id

\* MarkPaid that completes the order and forgets its paymentStatus
MarkPaid_statusOnly(os, orderId) ==
    [i \in 1..Len(os) |->
        IF os[i].id = orderId THEN [os[i] EXCEPT !.status = "completed"] ELSE os[i]]

\* orders.map(order => order.id === orderId ? {...order, status: 'completed',
\* paymentStatus: 'paid'} : order)
MarkPaid(os, orderId) ==
    [i \in 1..Len(os) |->
        IF os[i].id = orderId
        THEN [os[i] EXCEPT !.status = "completed", !.paymentStatus = "paid"]
        ELSE os[i]]

\* AddToQueue putting the entry at the head
AddToQueue_atHead(q, operationName, payload) ==
    <<[operationName |-> operationName, payload |-> payload]>> \o q

\* OfflineManager.addToQueue(operationName, payload)
AddToQueue(q, operationName, payload) ==
    Append(q, [operationName |-> operationName, payload |-> payload])

\* What the backend (or IndexedDB) answers to `call`, and what it does
BackendReply(call) ==
    CASE call.fn = "getMenuItems" -> Ok(ById(dbMenu))
      [] call.fn = "getOrders" -> Ok(ById(dbOrders))
      [] call.fn = "getOfflinePayments" -> Ok(idb)
      [] call.fn = "updateOrderStatus" ->
            IF \E o \in dbOrders : o.id = call.args.orderId
            THEN Ok([(CHOOSE o \in dbOrders : o.id = call.args.orderId)
                        EXCEPT !.status = call.args.status])
            ELSE Err
      [] call.fn = "updateMenuItemStock" ->
            IF \E m \in dbMenu : m.id = call.args.menuItemId
            THEN Ok([(CHOOSE m \in dbMenu : m.id = call.args.menuItemId)
                        EXCEPT !.currentStock = call.args.newStock])
            ELSE Err
      [] call.fn = "createMenuItem" ->
            IF 1..MaxMenu \ {m.id : m \in dbMenu} = {} THEN Err
            ELSE Ok([call.args EXCEPT
                        !.id = CHOOSE i \in 1..MaxMenu \ {m.id : m \in dbMenu} :
                                  \A j \in 1..MaxMenu \ {m.id : m \in dbMenu} : i <= j])
      [] call.fn = "updateMenuItem" ->
            IF \E m \in dbMenu : m.id = call.args.menuItemId
            THEN Ok([(CHOOSE m \in dbMenu : m.id = call.args.menuItemId)
                        EXCEPT !.currentStock = call.args.updates.currentStock])
            ELSE Err
      [] OTHER -> Ok(Null)

BackendEffect(call, reply) ==
    /\ idb' = IF call.fn = "storeOfflinePayment" THEN Append(idb, call.args) ELSE idb
    /\ dbOrders' = IF call.fn = "updateOrderStatus"
                   THEN {IF o.id = call.args.orderId THEN reply.data ELSE o : o \in dbOrders}
                   ELSE dbOrders
    /\ dbMenu' = IF call.fn \in {"updateMenuItemStock", "updateMenuItem"}
                 THEN {IF m.id = call.args.menuItemId THEN reply.data ELSE m : m \in dbMenu}
                 ELSE IF call.fn = "createMenuItem" THEN dbMenu \cup {reply.data}
                 ELSE IF call.fn = "deleteMenuItem"
                 THEN {m \in dbMenu : m.id # call.args.menuItemId}
                 ELSE dbMenu
    /\ dbTransactions' = IF call.fn = "updateMenuItemStock"
                         THEN Append(dbTransactions, call.args)
                         ELSE dbTransactions
    /\ queue' = IF call.fn = "processOfflineQueue" THEN <<>> ELSE queue

\* The backend (or IndexedDB) serves the pending call of task t, or fails it
pos_backend(t, fail) ==
    /\ posTasks[t] # Idle
    /\ posTasks[t].resp = NoResp
    /\ LET call == posTasks[t].call
           reply == IF fail THEN Err ELSE BackendReply(call)
       IN  /\ posTasks' = [posTasks EXCEPT ![t].resp = reply]
           /\ IF reply.status = "ok"
              THEN BackendEffect(call, reply)
              ELSE UNCHANGED posEnv
           /\ ev' = Event("backend", "served", posTasks'[t], "",
                          [idb |-> idb, dbTransactions |-> dbTransactions])
    /\ UNCHANGED <<menuItems, orders, posLoading, posError, isOffline, offlinePayments,
                   NotPos>>

\* task t of operation o has its reply to the call it awaits at pc
Replied(t, o, pc) ==
    /\ posTasks[t].op = o
    /\ posTasks[t].pc = pc
    /\ posTasks[t].resp # NoResp

\* the task suspended at its next await
Await(task, call) ==
    [task EXCEPT !.pc = call.fn, !.call = call, !.resp = NoResp,
                 !.log = Append(task.log, call.fn)]

PosBefore ==
    [orders |-> orders, offlinePayments |-> offlinePayments, queue |-> queue,
     menuItems |-> menuItems]

\* suspend task t at `call`, the store otherwise as it is
PosIssue(t, task, call) ==
    /\ posTasks' = [posTasks EXCEPT ![t] = Await(task, call)]
    /\ ev' = Event(task.op, "pending", posTasks'[t], "", Null)

\* catch { set({ error, isLoading: false }); throw error }
PosCatchThrow(t, why) ==
    /\ posError' = "BackendError"
    /\ posLoading' = FALSE
    /\ posTasks' = [posTasks EXCEPT ![t] = Idle]
    /\ ev' = Event(posTasks[t].op, "thrown", posTasks[t], why, PosBefore)
    /\ UNCHANGED <<menuItems, orders, isOffline, offlinePayments, posEnv, NotPos>>

\* PosCatch that also empties the published orders
PosCatch_clearing(t, why) ==
    /\ posError' = "BackendError"
    /\ posLoading' = FALSE
    /\ orders' = <<>>
    /\ posTasks' = [posTasks EXCEPT ![t] = Idle]
    /\ ev' = Event(posTasks[t].op, "caught", posTasks[t], why, PosBefore)
    /\ UNCHANGED <<menuItems, isOffline, offlinePayments, posEnv, NotPos>>

\* catch { set({ error, isLoading: false }) }
PosCatch(t, why) ==
    /\ posError' = "BackendError"
    /\ posLoading' = FALSE
    /\ posTasks' = [posTasks EXCEPT ![t] = Idle]
    /\ ev' = Event(posTasks[t].op, "caught", posTasks[t], why, PosBefore)
    /\ UNCHANGED <<menuItems, orders, isOffline, offlinePayments, posEnv, NotPos>>

setOfflineStatus(b) ==
    /\ isOffline' = b
    /\ ev' = Event("setOfflineStatus", "ok", [isOffline |-> b], "", Null)
    /\ UNCHANGED <<menuItems, orders, posLoading, posError, offlinePayments, posTasks,
                   posEnv, NotPos>>

-----------------------------------------------------------------------------
(* POS store: initialize *)

initialize_start(t) ==
    /\ posTasks[t] = Idle
    /\ posLoading' = TRUE
    /\ posError' = NoError
    /\ PosIssue(t, [op |-> "initialize", pc |-> "", call |-> Null, resp |-> NoResp,
                    log |-> <<>>, menuItems |-> <<>>, orders |-> <<>>],
                Call("getMenuItems", Null))
    /\ UNCHANGED <<menuItems, orders, isOffline, offlinePayments, posEnv, NotPos>>

initialize_menuItems(t) ==
    /\ Replied(t, "initialize", "getMenuItems")
    /\ posTasks[t].resp.status = "ok"
    /\ PosIssue(t, [posTasks[t] EXCEPT !.menuItems = posTasks[t].resp.data],
                Call("getOrders", Null))
    /\ UNCHANGED <<menuItems, orders, posLoading, posError, isOffline, offlinePayments,
                   posEnv, NotPos>>

initialize_orders(t) ==
    /\ Replied(t, "initialize", "getOrders")
    /\ posTasks[t].resp.status = "ok"
    /\ PosIssue(t, [posTasks[t] EXCEPT !.orders = posTasks[t].resp.data],
                Call("getOfflinePayments", Null))
    /\ UNCHANGED <<menuItems, orders, posLoading, posError, isOffline, offlinePayments,
                   posEnv, NotPos>>

initialize_done(t) ==
    /\ Replied(t, "initialize", "getOfflinePayments")
    /\ posTasks[t].resp.status = "ok"
    /\ menuItems' = posTasks[t].menuItems
    /\ orders' = posTasks[t].orders
    /\ offlinePayments' = posTasks[t].resp.data
    /\ posLoading' = FALSE
    /\ posTasks' = [posTasks EXCEPT ![t] = Idle]
    /\ ev' = Event("initialize", "ok", posTasks[t], "", PosBefore)
    /\ UNCHANGED <<posError, isOffline, posEnv, NotPos>>

initialize_failed(t) ==
    /\ posTasks[t].op = "initialize"
    /\ posTasks[t].resp = Err
    /\ PosCatch(t, posTasks[t].pc)

-----------------------------------------------------------------------------
(* POS store: syncOfflineData, syncOfflinePayments *)

syncOfflineData_start(t) ==
    /\ posTasks[t] = Idle
    /\ posLoading' = TRUE
    /\ PosIssue(t, [op |-> "syncOfflineData", pc |-> "", call |-> Null, resp |-> NoResp,
                    log |-> <<>>, menuItems |-> <<>>],
                Call("processOfflineQueue", Null))
    /\ UNCHANGED <<menuItems, orders, posError, isOffline, offlinePayments, posEnv,
                   NotPos>>

\* syncOfflineData_processed going on whatever the drain answered
syncOfflineData_processed_anyReply(t) ==
    /\ Replied(t, "syncOfflineData", "processOfflineQueue")
    /\ PosIssue(t, posTasks[t], Call("getMenuItems", Null))
    /\ UNCHANGED <<menuItems, orders, posLoading, posError, isOffline, offlinePayments,
                   posEnv, NotPos>>

syncOfflineData_processed(t) ==
    /\ Replied(t, "syncOfflineData", "processOfflineQueue")
    /\ posTasks[t].resp.status = "ok"
    /\ PosIssue(t, posTasks[t], Call("getMenuItems", Null))
    /\ UNCHANGED <<menuItems, orders, posLoading, posError, isOffline, offlinePayments,
                   posEnv, NotPos>>

syncOfflineData_menuItems(t) ==
    /\ Replied(t, "syncOfflineData", "getMenuItems")
    /\ posTasks[t].resp.status = "ok"
    /\ PosIssue(t, [posTasks[t] EXCEPT !.menuItems = posTasks[t].resp.data],
                Call("getOrders", Null))
    /\ UNCHANGED <<menuItems, orders, posLoading, posError, isOffline, offlinePayments,
                   posEnv, NotPos>>

syncOfflineData_done(t) ==
    /\ Replied(t, "syncOfflineData", "getOrders")
    /\ posTasks[t].resp.status = "ok"
    /\ menuItems' = posTasks[t].menuItems
    /\ orders' = posTasks[t].resp.data
    /\ posLoading' = FALSE
    /\ posTasks' = [posTasks EXCEPT ![t] = Idle]
    /\ ev' = Event("syncOfflineData", "ok", posTasks[t], "", PosBefore)
    /\ UNCHANGED <<posError, isOffline, offlinePayments, posEnv, NotPos>>

\* catch: report and return { success: false, error }
syncOfflineData_failed(t) ==
    /\ posTasks[t].op = "syncOfflineData"
    /\ posTasks[t].resp = Err
    /\ PosCatch(t, posTasks[t].pc)

syncOfflinePayments_start(t) ==
    /\ posTasks[t] = Idle
    /\ posLoading' = TRUE
    /\ PosIssue(t, [op |-> "syncOfflinePayments", pc |-> "", call |-> Null,
                    resp |-> NoResp, log |-> <<>>, orders |-> <<>>],
                Call("processOfflinePayments", Null))
    /\ UNCHANGED <<menuItems, orders, posError, isOffline, offlinePayments, posEnv,
                   NotPos>>

syncOfflinePayments_processed(t) ==
    /\ Replied(t, "syncOfflinePayments", "processOfflinePayments")
    /\ posTasks[t].resp.status = "ok"
    /\ PosIssue(t, posTasks[t], Call("getOrders", Null))
    /\ UNCHANGED <<menuItems, orders, posLoading, posError, isOffline, offlinePayments,
                   posEnv, NotPos>>

syncOfflinePayments_orders(t) ==
    /\ Replied(t, "syncOfflinePayments", "getOrders")
    /\ posTasks[t].resp.status = "ok"
    /\ PosIssue(t, [posTasks[t] EXCEPT !.orders = posTasks[t].resp.data],
                Call("getOfflinePayments", Null))
    /\ UNCHANGED <<menuItems, orders, posLoading, posError, isOffline, offlinePayments,
                   posEnv, NotPos>>

syncOfflinePayments_done(t) ==
    /\ Replied(t, "syncOfflinePayments", "getOfflinePayments")
    /\ posTasks[t].resp.status = "ok"
    /\ orders' = posTasks[t].orders
    /\ offlinePayments' = posTasks[t].resp.data
    /\ posLoading' = FALSE
    /\ posTasks' = [posTasks EXCEPT ![t] = Idle]
    /\ ev' = Event("syncOfflinePayments", "ok", posTasks[t], "", PosBefore)
    /\ UNCHANGED <<menuItems, posError, isOffline, posEnv, NotPos>>

\* catch: report and return { success: false, error }
syncOfflinePayments_failed(t) ==
    /\ posTasks[t].op = "syncOfflinePayments"
    /\ posTasks[t].resp = Err
    /\ PosCatch(t, posTasks[t].pc)

-----------------------------------------------------------------------------
(* POS store: processPayment *)

\* The `details` the UI passes: no tip, a tax amount; tipPercentage and
\* taxRate travel like taxAmount
Details == {[tipAmount |-> NoNumber, taxAmount |-> 1]}

\* the record kept in IndexedDB and in offlinePayments
OfflinePayment(id, orderId, amount, paymentMethod, details) ==
    [id |-> id, orderId |-> orderId, amount |-> amount, paymentMethod |-> paymentMethod,
     tipAmount |-> OrZero(Opt(details, "tipAmount")),
     taxAmount |-> Opt(details, "taxAmount")]

\* the payload queued for the later sync
QueuedPayment(orderId, amount, paymentMethod, details) ==
    [orderId |-> orderId, amount |-> amount, paymentMethod |-> paymentMethod,
     tipAmount |-> Opt(details, "tipAmount"), taxAmount |-> Opt(details, "taxAmount")]

\* the row handed to queries.createPayment
PaymentRow(orderId, amount, paymentMethod, details) ==
    [orderId |-> orderId, amount |-> amount, paymentMethod |-> paymentMethod,
     status |-> "completed",
     tipAmount |-> Opt(details, "tipAmount"), taxAmount |-> Opt(details, "taxAmount")]

processPayment_start(t, orderId, amount, paymentMethod, details, id) ==
    /\ posTasks[t] = Idle
    /\ isOffline => Len(idb) < MaxOffline
    /\ posLoading' = TRUE
    /\ LET task == [op |-> "processPayment", pc |-> "", call |-> Null, resp |-> NoResp,
                    log |-> <<>>, offline |-> isOffline, orderId |-> orderId,
                    payload |-> QueuedPayment(orderId, amount, paymentMethod, details)]
       IN  IF isOffline
           THEN PosIssue(t, task, Call("storeOfflinePayment",
                    OfflinePayment(id, orderId, amount, paymentMethod, details)))
           ELSE PosIssue(t, task, Call("createPayment",
                    PaymentRow(orderId, amount, paymentMethod, details)))
    /\ UNCHANGED <<menuItems, orders, posError, isOffline, offlinePayments, posEnv, NotPos>>

\* storeOfflinePayment resolved: publish, then queue for the later sync
processPayment_stored(t) ==
    /\ Replied(t, "processPayment", "storeOfflinePayment")
    /\ posTasks[t].resp.status = "ok"
    /\ offlinePayments' = Append(offlinePayments, posTasks[t].call.args)
    /\ orders' = MarkPaid(orders, posTasks[t].orderId)
    /\ posLoading' = FALSE
    /\ queue' = AddToQueue(queue, "processPayment", posTasks[t].payload)
    /\ posTasks' = [posTasks EXCEPT ![t] = Idle]
    /\ ev' = Event("processPayment", "ok",
                   [posTasks[t] EXCEPT !.log = Append(posTasks[t].log, "addToQueue")],
                   "", PosBefore)
    /\ UNCHANGED <<menuItems, posError, isOffline, dbMenu, dbOrders, dbTransactions, idb,
                   NotPos>>

\* processPayment_created going on whatever createPayment answered
processPayment_created_anyReply(t) ==
    /\ Replied(t, "processPayment", "createPayment")
    /\ PosIssue(t, posTasks[t], Call("updateOrderStatus",
                    [orderId |-> posTasks[t].orderId, status |-> "completed"]))
    /\ UNCHANGED <<menuItems, orders, posLoading, posError, isOffline, offlinePayments,
                   posEnv, NotPos>>

processPayment_created(t) ==
    /\ Replied(t, "processPayment", "createPayment")
    /\ posTasks[t].resp.status = "ok"
    /\ PosIssue(t, posTasks[t], Call("updateOrderStatus",
                    [orderId |-> posTasks[t].orderId, status |-> "completed"]))
    /\ UNCHANGED <<menuItems, orders, posLoading, posError, isOffline, offlinePayments,
                   posEnv, NotPos>>

processPayment_statusUpdated(t) ==
    /\ Replied(t, "processPayment", "updateOrderStatus")
    /\ posTasks[t].resp.status = "ok"
    /\ PosIssue(t, posTasks[t], Call("getOrders", Null))
    /\ UNCHANGED <<menuItems, orders, posLoading, posError, isOffline, offlinePayments,
                   posEnv, NotPos>>

processPayment_refreshed(t) ==
    /\ Replied(t, "processPayment", "getOrders")
    /\ posTasks[t].resp.status = "ok"
    /\ orders' = posTasks[t].resp.data
    /\ posLoading' = FALSE
    /\ posTasks' = [posTasks EXCEPT ![t] = Idle]
    /\ ev' = Event("processPayment", "ok", posTasks[t], "", PosBefore)
    /\ UNCHANGED <<menuItems, posError, isOffline, offlinePayments, posEnv, NotPos>>

\* processPayment_failed that still queues the payment for the later sync
processPayment_failed_queued(t) ==
    /\ posTasks[t].op = "processPayment"
    /\ posTasks[t].resp = Err
    /\ posError' = "BackendError"
    /\ posLoading' = FALSE
    /\ queue' = AddToQueue(queue, "processPayment", posTasks[t].payload)
    /\ posTasks' = [posTasks EXCEPT ![t] = Idle]
    /\ ev' = Event("processPayment", "thrown", posTasks[t], posTasks[t].pc, PosBefore)
    /\ UNCHANGED <<menuItems, orders, isOffline, offlinePayments, dbMenu, dbOrders,
                   dbTransactions, idb, NotPos>>

processPayment_failed(t) ==
    /\ posTasks[t].op = "processPayment"
    /\ posTasks[t].resp = Err
    /\ PosCatchThrow(t, posTasks[t].pc)

-----------------------------------------------------------------------------
(* POS store: processSplitPayment *)

\* The sub-payments the UI passes: the k-th pays 10 * k, alternately in cash
\* without a tip and by card without a tax amount
SubPayment(k) ==
    [amount |-> 10 * k,
     method |-> IF k % 2 = 1 THEN "cash" ELSE "card",
     tipAmount |-> IF k % 2 = 1 THEN NoNumber ELSE 2,
     taxAmount |-> IF k % 2 = 1 THEN 1 ELSE NoNumber]

PaymentLists == {[k \in 1..n |-> SubPayment(k)] : n \in 0..MaxSplit}

SplitOfflinePayment(id, orderId, payment) ==
    [id |-> id, orderId |-> orderId, amount |-> payment.amount,
     paymentMethod |-> payment.method,
     tipAmount |-> OrZero(payment.tipAmount), taxAmount |-> OrZero(payment.taxAmount)]

SplitQueuedPayment(orderId, payment) ==
    [orderId |-> orderId, amount |-> payment.amount, paymentMethod |-> payment.method,
     tipAmount |-> payment.tipAmount, taxAmount |-> payment.taxAmount]

SplitPaymentRow(orderId, payment) ==
    [orderId |-> orderId, amount |-> payment.amount, paymentMethod |-> payment.method,
     status |-> "completed",
     tipAmount |-> OrZero(payment.tipAmount), taxAmount |-> OrZero(payment.taxAmount)]

StatusCall(orderId) ==
    Call("updateOrderStatus", [orderId |-> orderId, status |-> "completed"])

processSplitPayment_start(t, orderId, payments, id) ==
    /\ posTasks[t] = Idle
    /\ isOffline => Len(idb) + Len(payments) <= MaxOffline
    /\ LET task == [op |-> "processSplitPayment", pc |-> "", call |-> Null,
                    resp |-> NoResp, log |-> <<>>, offline |-> isOffline,
                    orderId |-> orderId, payments |-> payments, i |-> 1]
       IN  IF isOffline /\ payments = <<>>
           THEN /\ orders' = MarkPaid(orders, orderId)
                /\ posLoading' = FALSE
                /\ ev' = Event("processSplitPayment", "ok", task, "", PosBefore)
                /\ UNCHANGED posTasks
           ELSE /\ posLoading' = TRUE
                /\ PosIssue(t, task,
                        IF isOffline
                        THEN Call("storeOfflinePayment",
                                  SplitOfflinePayment(id, orderId, payments[1]))
                        ELSE IF payments = <<>> THEN StatusCall(orderId)
                        ELSE Call("createPayment", SplitPaymentRow(orderId, payments[1])))
                /\ UNCHANGED orders
    /\ UNCHANGED <<menuItems, posError, isOffline, offlinePayments, posEnv, NotPos>>

\* processSplitPayment_stored completing the order with the first sub-payment
\* stored
processSplitPayment_stored_eagerPaid(t, id) ==
    /\ Replied(t, "processSplitPayment", "storeOfflinePayment")
    /\ posTasks[t].resp.status = "ok"
    /\ LET task == posTasks[t]
           queued == [task EXCEPT !.log = Append(task.log, "addToQueue"), !.i = task.i + 1]
       IN  /\ offlinePayments' = Append(offlinePayments, task.call.args)
           /\ queue' = AddToQueue(queue, "processPayment",
                                  SplitQueuedPayment(task.orderId, task.payments[task.i]))
           /\ orders' = MarkPaid(orders, task.orderId)
           /\ IF task.i < Len(task.payments)
              THEN /\ PosIssue(t, queued, Call("storeOfflinePayment",
                          SplitOfflinePayment(id, task.orderId, task.payments[task.i + 1])))
                   /\ UNCHANGED posLoading
              ELSE /\ posLoading' = FALSE
                   /\ posTasks' = [posTasks EXCEPT ![t] = Idle]
                   /\ ev' = Event("processSplitPayment", "ok", queued, "", PosBefore)
    /\ UNCHANGED <<menuItems, posError, isOffline, dbMenu, dbOrders, dbTransactions, idb,
                   NotPos>>

\* processSplitPayment_stored reading isOffline again for the next sub-payment
processSplitPayment_stored_rereads(t, id) ==
    /\ Replied(t, "processSplitPayment", "storeOfflinePayment")
    /\ posTasks[t].resp.status = "ok"
    /\ LET task == posTasks[t]
           queued == [task EXCEPT !.log = Append(task.log, "addToQueue"), !.i = task.i + 1]
       IN  /\ offlinePayments' = Append(offlinePayments, task.call.args)
           /\ queue' = AddToQueue(queue, "processPayment",
                                  SplitQueuedPayment(task.orderId, task.payments[task.i]))
           /\ IF task.i < Len(task.payments)
              THEN /\ PosIssue(t, queued,
                          IF isOffline
                          THEN Call("storeOfflinePayment",
                                    SplitOfflinePayment(id, task.orderId,
                                                        task.payments[task.i + 1]))
                          ELSE Call("createPayment",
                                    SplitPaymentRow(task.orderId,
                                                    task.payments[task.i + 1])))
                   /\ UNCHANGED <<orders, posLoading>>
              ELSE /\ orders' = MarkPaid(orders, task.orderId)
                   /\ posLoading' = FALSE
                   /\ posTasks' = [posTasks EXCEPT ![t] = Idle]
                   /\ ev' = Event("processSplitPayment", "ok", queued, "", PosBefore)
    /\ UNCHANGED <<menuItems, posError, isOffline, dbMenu, dbOrders, dbTransactions, idb,
                   NotPos>>

\* storeOfflinePayment of sub-payment i resolved: publish it, queue it, go on
\* with sub-payment i + 1 or, after the last one, complete the order locally
processSplitPayment_stored(t, id) ==
    /\ Replied(t, "processSplitPayment", "storeOfflinePayment")
    /\ posTasks[t].resp.status = "ok"
    /\ LET task == posTasks[t]
           queued == [task EXCEPT !.log = Append(task.log, "addToQueue"), !.i = task.i + 1]
       IN  /\ offlinePayments' = Append(offlinePayments, task.call.args)
           /\ queue' = AddToQueue(queue, "processPayment",
                                  SplitQueuedPayment(task.orderId, task.payments[task.i]))
           /\ IF task.i < Len(task.payments)
              THEN /\ PosIssue(t, queued, Call("storeOfflinePayment",
                          SplitOfflinePayment(id, task.orderId, task.payments[task.i + 1])))
                   /\ UNCHANGED <<orders, posLoading>>
              ELSE /\ orders' = MarkPaid(orders, task.orderId)
                   /\ posLoading' = FALSE
                   /\ posTasks' = [posTasks EXCEPT ![t] = Idle]
                   /\ ev' = Event("processSplitPayment", "ok", queued, "", PosBefore)
    /\ UNCHANGED <<menuItems, posError, isOffline, dbMenu, dbOrders, dbTransactions, idb,
                   NotPos>>

\* processSplitPayment_created that refreshes the orders right after the last
\* payment, without the order-status update
processSplitPayment_created_noStatus(t) ==
    /\ Replied(t, "processSplitPayment", "createPayment")
    /\ posTasks[t].resp.status = "ok"
    /\ LET task == posTasks[t] IN
       IF task.i < Len(task.payments)
       THEN PosIssue(t, [task EXCEPT !.i = task.i + 1],
                     Call("createPayment",
                          SplitPaymentRow(task.orderId, task.payments[task.i + 1])))
       ELSE PosIssue(t, [task EXCEPT !.i = task.i + 1], Call("getOrders", Null))
    /\ UNCHANGED <<menuItems, orders, posLoading, posError, isOffline, offlinePayments,
                   posEnv, NotPos>>

\* processSplitPayment_created going on whatever createPayment answered
processSplitPayment_created_anyReply(t) ==
    /\ Replied(t, "processSplitPayment", "createPayment")
    /\ LET task == posTasks[t] IN
       IF task.i < Len(task.payments)
       THEN PosIssue(t, [task EXCEPT !.i = task.i + 1],
                     Call("createPayment",
                          SplitPaymentRow(task.orderId, task.payments[task.i + 1])))
       ELSE PosIssue(t, [task EXCEPT !.i = task.i + 1], StatusCall(task.orderId))
    /\ UNCHANGED <<menuItems, orders, posLoading, posError, isOffline, offlinePayments,
                   posEnv, NotPos>>

\* createPayment of sub-payment i resolved: go on with sub-payment i + 1 or,
\* after the last one, update the order's status
processSplitPayment_created(t) ==
    /\ Replied(t, "processSplitPayment", "createPayment")
    /\ posTasks[t].resp.status = "ok"
    /\ LET task == posTasks[t] IN
       IF task.i < Len(task.payments)
       THEN PosIssue(t, [task EXCEPT !.i = task.i + 1],
                     Call("createPayment",
                          SplitPaymentRow(task.orderId, task.payments[task.i + 1])))
       ELSE PosIssue(t, [task EXCEPT !.i = task.i + 1], StatusCall(task.orderId))
    /\ UNCHANGED <<menuItems, orders, posLoading, posError, isOffline, offlinePayments,
                   posEnv, NotPos>>

processSplitPayment_statusUpdated(t) ==
    /\ Replied(t, "processSplitPayment", "updateOrderStatus")
    /\ posTasks[t].resp.status = "ok"
    /\ PosIssue(t, posTasks[t], Call("getOrders", Null))
    /\ UNCHANGED <<menuItems, orders, posLoading, posError, isOffline, offlinePayments,
                   posEnv, NotPos>>

processSplitPayment_refreshed(t) ==
    /\ Replied(t, "processSplitPayment", "getOrders")
    /\ posTasks[t].resp.status = "ok"
    /\ orders' = posTasks[t].resp.data
    /\ posLoading' = FALSE
    /\ posTasks' = [posTasks EXCEPT ![t] = Idle]
    /\ ev' = Event("processSplitPayment", "ok", posTasks[t], "", PosBefore)
    /\ UNCHANGED <<menuItems, posError, isOffline, offlinePayments, posEnv, NotPos>>

processSplitPayment_failed(t) ==
    /\ posTasks[t].op = "processSplitPayment"
    /\ posTasks[t].resp = Err
    /\ PosCatchThrow(t, posTasks[t].pc)

-----------------------------------------------------------------------------
(* POS store: restockMenuItem, adjustMenuItemStock, recordWaste *)

MenuIds == 1..MaxItems
StockLevels == 0..MaxStock
Quantities == 0..(MaxStock + 1)

\* useAuthStore.getState().user?.id as the stock operations read it
StockUsers == {NoId, 1}

MkMenuItem(i, stock) == [id |-> i, currentStock |-> stock]

Max(a, b) == IF a >= b THEN a ELSE b

\* get().menuItems.find(item => item.id === menuItemId)
FindMenuItem(menuItemId) ==
    LET WithId(item) == item.id = menuItemId IN Find(menuItems, WithId)

\* RestockValues persisting the quantity itself as the stock
RestockValues_replace(currentStock, quantity) ==
    [newStock |-> quantity, quantityChange |-> quantity]

\* restockMenuItem: the stock and the quantity change sent to the backend
RestockValues(currentStock, quantity) ==
    [newStock |-> currentStock + quantity, quantityChange |-> quantity]

\* adjustMenuItemStock: the same for the stock level asked for
AdjustValues(currentStock, newStock) ==
    [newStock |-> newStock, quantityChange |-> newStock - currentStock]

\* WasteValues subtracting without the floor at zero
WasteValues_noFloor(currentStock, quantity) ==
    [newStock |-> currentStock - quantity, quantityChange |-> 0 - quantity]

\* recordWaste: the same for a wasted quantity
WasteValues(currentStock, quantity) ==
    [newStock |-> Max(0, currentStock - quantity), quantityChange |-> 0 - quantity]

\* The body the three stock operations share: look the item up in the cached
\* menuItems, compute the values, read the signed-in user's id (userId, NoId
\* when nobody is signed in) and hand the update to the backend.
StockStart(t, o, type, menuItemId, arg, values, userId) ==
    /\ posTasks[t] = Idle
    /\ posError' = IF FindMenuItem(menuItemId) = Null \/ userId = NoId
                   THEN "Error" ELSE NoError
    /\ LET task == [op |-> o, pc |-> "", call |-> Null, resp |-> NoResp, log |-> <<>>,
                    menuItemId |-> menuItemId, arg |-> arg]
       IN  IF FindMenuItem(menuItemId) = Null
           THEN /\ posLoading' = FALSE
                /\ ev' = Event(o, "thrown", task, "Menu item not found", PosBefore)
                /\ UNCHANGED posTasks
           ELSE IF userId = NoId
           THEN /\ posLoading' = FALSE
                /\ ev' = Event(o, "thrown", task, "User not authenticated", PosBefore)
                /\ UNCHANGED posTasks
           ELSE /\ posLoading' = TRUE
                /\ PosIssue(t, task, Call("updateMenuItemStock",
                        [menuItemId |-> menuItemId, newStock |-> values.newStock,
                         type |-> type, quantityChange |-> values.quantityChange,
                         userId |-> userId]))
    /\ UNCHANGED <<menuItems, orders, isOffline, offlinePayments, posEnv, NotPos>>

\* updateMenuItemStock resolved: publish the updated item
StockDone(t, o) ==
    /\ Replied(t, o, "updateMenuItemStock")
    /\ posTasks[t].resp.status = "ok"
    /\ menuItems' = ReplaceById(menuItems, posTasks[t].menuItemId, posTasks[t].resp.data)
    /\ posLoading' = FALSE
    /\ posTasks' = [posTasks EXCEPT ![t] = Idle]
    /\ ev' = Event(o, "ok", posTasks[t], "", PosBefore)
    /\ UNCHANGED <<orders, posError, isOffline, offlinePayments, posEnv, NotPos>>

StockFailed(t, o) ==
    /\ posTasks[t].op = o
    /\ posTasks[t].resp = Err
    /\ PosCatchThrow(t, posTasks[t].pc)

\* menuItem.currentStock || 0 of the cached item (0 when the item is missing,
\* which the operations never read)
CachedStock(menuItemId) ==
    IF FindMenuItem(menuItemId) = Null THEN 0
    ELSE OrZero(FindMenuItem(menuItemId).currentStock)

restockMenuItem_start(t, menuItemId, quantity, userId) ==
    /\ Len(dbTransactions) < MaxTransactions
    /\ CachedStock(menuItemId) + quantity <= MaxStock
    /\ StockStart(t, "restockMenuItem", "restock", menuItemId, quantity,
                  RestockValues(CachedStock(menuItemId), quantity), userId)

restockMenuItem_done(t) ==
    /\ posTasks[t].op = "restockMenuItem"
    /\ StockDone(t, "restockMenuItem")

restockMenuItem_failed(t) ==
    /\ posTasks[t].op = "restockMenuItem"
    /\ StockFailed(t, "restockMenuItem")

adjustMenuItemStock_start(t, menuItemId, newStock, userId) ==
    /\ Len(dbTransactions) < MaxTransactions
    /\ StockStart(t, "adjustMenuItemStock", "adjustment", menuItemId, newStock,
                  AdjustValues(CachedStock(menuItemId), newStock), userId)

adjustMenuItemStock_done(t) ==
    /\ posTasks[t].op = "adjustMenuItemStock"
    /\ StockDone(t, "adjustMenuItemStock")

adjustMenuItemStock_failed(t) ==
    /\ posTasks[t].op = "adjustMenuItemStock"
    /\ StockFailed(t, "adjustMenuItemStock")

recordWaste_start(t, menuItemId, quantity, userId) ==
    /\ Len(dbTransactions) < MaxTransactions
    /\ StockStart(t, "recordWaste", "waste", menuItemId, quantity,
                  WasteValues(CachedStock(menuItemId), quantity), userId)

recordWaste_done(t) ==
    /\ posTasks[t].op = "recordWaste"
    /\ StockDone(t, "recordWaste")

recordWaste_failed(t) ==
    /\ posTasks[t].op = "recordWaste"
    /\ StockFailed(t, "recordWaste")

-----------------------------------------------------------------------------
(* POS store: createMenuItem, updateMenuItem, deleteMenuItem, updateOrderStatus *)

\* try { set({ isLoading: true, error: null }); await queries.<call>
MenuStart(t, o, call) ==
    /\ posTasks[t] = Idle
    /\ posLoading' = TRUE
    /\ posError' = NoError
    /\ PosIssue(t, [op |-> o, pc |-> "", call |-> Null, resp |-> NoResp, log |-> <<>>],
                call)
    /\ UNCHANGED <<menuItems, orders, isOffline, offlinePayments, posEnv, NotPos>>

\* set(state => ({ menuItems: ..., isLoading: false })) after the await
MenuDone(t, o, items) ==
    /\ Replied(t, o, o)
    /\ posTasks[t].resp.status = "ok"
    /\ menuItems' = items
    /\ posLoading' = FALSE
    /\ posTasks' = [posTasks EXCEPT ![t] = Idle]
    /\ ev' = Event(o, "ok", posTasks[t], "", PosBefore)
    /\ UNCHANGED <<orders, posError, isOffline, offlinePayments, posEnv, NotPos>>

MenuFailed(t, o) ==
    /\ Replied(t, o, o)
    /\ posTasks[t].resp = Err
    /\ PosCatchThrow(t, o)

createMenuItem_start(t, menuItem) ==
    /\ 1..MaxMenu \ {m.id : m \in dbMenu} # {}
    /\ MenuStart(t, "createMenuItem", Call("createMenuItem", menuItem))

createMenuItem_done(t) ==
    /\ posTasks[t].op = "createMenuItem"
    /\ MenuDone(t, "createMenuItem", Append(menuItems, posTasks[t].resp.data))

createMenuItem_failed(t) ==
    /\ posTasks[t].op = "createMenuItem"
    /\ MenuFailed(t, "createMenuItem")

updateMenuItem_start(t, menuItemId, updates) ==
    /\ posTasks[t] = Idle
    /\ MenuStart(t, "updateMenuItem",
                 Call("updateMenuItem", [menuItemId |-> menuItemId, updates |-> updates]))

updateMenuItem_done(t) ==
    /\ posTasks[t].op = "updateMenuItem"
    /\ MenuDone(t, "updateMenuItem",
                ReplaceById(menuItems, posTasks[t].call.args.menuItemId,
                            posTasks[t].resp.data))

updateMenuItem_failed(t) ==
    /\ posTasks[t].op = "updateMenuItem"
    /\ MenuFailed(t, "updateMenuItem")

deleteMenuItem_start(t, menuItemId) ==
    /\ posTasks[t] = Idle
    /\ MenuStart(t, "deleteMenuItem",
                 Call("deleteMenuItem", [menuItemId |-> menuItemId]))

deleteMenuItem_done(t) ==
    /\ posTasks[t].op = "deleteMenuItem"
    /\ LET Others(item) == item.id # posTasks[t].call.args.menuItemId
       IN  MenuDone(t, "deleteMenuItem", SelectSeq(menuItems, Others))

deleteMenuItem_failed(t) ==
    /\ posTasks[t].op = "deleteMenuItem"
    /\ MenuFailed(t, "deleteMenuItem")

OrderStatuses == {"preparing", "ready"}

updateOrderStatus_start(t, orderId, status) ==
    /\ posTasks[t] = Idle
    /\ posLoading' = TRUE
    /\ PosIssue(t, [op |-> "updateOrderStatus", pc |-> "", call |-> Null,
                    resp |-> NoResp, log |-> <<>>],
                Call("updateOrderStatus", [orderId |-> orderId, status |-> status]))
    /\ UNCHANGED <<menuItems, orders, posError, isOffline, offlinePayments, posEnv,
                   NotPos>>

\* updateOrderStatus_done that drops the reply and keeps the cached order
updateOrderStatus_done_keepCached(t) ==
    /\ Replied(t, "updateOrderStatus", "updateOrderStatus")
    /\ posTasks[t].resp.status = "ok"
    /\ posLoading' = FALSE
    /\ posTasks' = [posTasks EXCEPT ![t] = Idle]
    /\ ev' = Event("updateOrderStatus", "ok", posTasks[t], "", PosBefore)
    /\ UNCHANGED <<menuItems, orders, posError, isOffline, offlinePayments, posEnv,
                   NotPos>>

updateOrderStatus_done(t) ==
    /\ Replied(t, "updateOrderStatus", "updateOrderStatus")
    /\ posTasks[t].resp.status = "ok"
    /\ orders' = ReplaceById(orders, posTasks[t].call.args.orderId,
                             posTasks[t].resp.data)
    /\ posLoading' = FALSE
    /\ posTasks' = [posTasks EXCEPT ![t] = Idle]
    /\ ev' = Event("updateOrderStatus", "ok", posTasks[t], "", PosBefore)
    /\ UNCHANGED <<menuItems, posError, isOffline, offlinePayments, posEnv, NotPos>>

updateOrderStatus_failed(t) ==
    /\ Replied(t, "updateOrderStatus", "updateOrderStatus")
    /\ posTasks[t].resp = Err
    /\ PosCatchThrow(t, "updateOrderStatus")

-----------------------------------------------------------------------------
(* Staff store (src/store/staff.ts) *)

StaffRoles == {"manager", "server"}

MkStaff(i, role) == [id |-> i, role |-> role]

StaffIdsOf(S) == {m.id : m \in S}

\* queries.getStaffMembers / createStaffMember / updateStaffMember /
\* deleteStaffMember as the backend answers them; a created member gets the
\* least id not in use
StaffReply(call) ==
    CASE call.fn = "getStaffMembers" -> Ok(ById(dbStaff))
      [] call.fn = "createStaffMember" ->
            IF UserIds \ StaffIdsOf(dbStaff) = {} THEN Err
            ELSE Ok(MkStaff(CHOOSE i \in UserIds \ StaffIdsOf(dbStaff) :
                                \A j \in UserIds \ StaffIdsOf(dbStaff) : i <= j,
                            call.args.role))
      [] call.fn = "updateStaffMember" ->
            IF call.args.userId \in StaffIdsOf(dbStaff)
            THEN Ok(MkStaff(call.args.userId, call.args.role))
            ELSE Err
      [] OTHER -> Ok(Null)

StaffEffect(call, reply) ==
    dbStaff' =
        CASE call.fn = "createStaffMember" -> dbStaff \cup {reply.data}
          [] call.fn = "updateStaffMember" ->
                {IF m.id = call.args.userId THEN reply.data ELSE m : m \in dbStaff}
          [] call.fn = "deleteStaffMember" ->
                {m \in dbStaff : m.id # call.args.userId}
          [] OTHER -> dbStaff

\* The backend serves the pending call of staff task t, or fails it
staff_backend(t, fail) ==
    /\ staffTasks[t] # Idle
    /\ staffTasks[t].resp = NoResp
    /\ LET call == staffTasks[t].call
           reply == IF fail THEN Err ELSE StaffReply(call)
       IN  /\ staffTasks' = [staffTasks EXCEPT ![t].resp = reply]
           /\ IF reply.status = "ok"
              THEN StaffEffect(call, reply)
              ELSE UNCHANGED dbStaff
           /\ ev' = Event("backend", "served", staffTasks'[t], "", Null)
    /\ UNCHANGED <<staffMembers, staffLoading, staffError, NotStaff>>

\* try { set({ isLoading: true, error: null }); await queries.<call>
StaffStart(t, o, call) ==
    /\ staffTasks[t] = Idle
    /\ staffLoading' = TRUE
    /\ staffError' = NoError
    /\ staffTasks' = [staffTasks EXCEPT ![t] =
                        [op |-> o, call |-> call, resp |-> NoResp]]
    /\ ev' = Event(o, "pending", staffTasks'[t], "", Null)
    /\ UNCHANGED <<staffMembers, dbStaff, NotStaff>>

\* set(...) after the await resolved
StaffDone(t, o, members) ==
    /\ staffTasks[t].op = o
    /\ staffTasks[t].resp.status = "ok"
    /\ staffMembers' = members
    /\ staffLoading' = FALSE
    /\ staffTasks' = [staffTasks EXCEPT ![t] = Idle]
    /\ ev' = Event(o, "ok", staffTasks[t], "", [staffMembers |-> staffMembers])
    /\ UNCHANGED <<staffError, dbStaff, NotStaff>>

\* catch (error) { set({ error, isLoading: false }); toast.error(...) }
StaffCatch(t, o) ==
    /\ staffTasks[t].op = o
    /\ staffTasks[t].resp = Err
    /\ staffError' = "BackendError"
    /\ staffLoading' = FALSE
    /\ staffTasks' = [staffTasks EXCEPT ![t] = Idle]
    /\ ev' = Event(o, "caught", staffTasks[t], staffTasks[t].call.fn,
                   [staffMembers |-> staffMembers])
    /\ UNCHANGED <<staffMembers, dbStaff, NotStaff>>

fetchStaffMembers_start(t) ==
    /\ t \in StaffTaskIds
    /\ StaffStart(t, "fetchStaffMembers", Call("getStaffMembers", Null))

fetchStaffMembers_done(t) ==
    /\ staffTasks[t].op = "fetchStaffMembers"
    /\ StaffDone(t, "fetchStaffMembers", staffTasks[t].resp.data)

fetchStaffMembers_failed(t) ==
    /\ staffTasks[t].op = "fetchStaffMembers"
    /\ StaffCatch(t, "fetchStaffMembers")

createStaffMember_start(t, role) ==
    /\ UserIds \ StaffIdsOf(dbStaff) # {}
    /\ StaffStart(t, "createStaffMember", Call("createStaffMember", [role |-> role]))

createStaffMember_done(t) ==
    /\ staffTasks[t].op = "createStaffMember"
    /\ StaffDone(t, "createStaffMember", Append(staffMembers, staffTasks[t].resp.data))

createStaffMember_failed(t) ==
    /\ staffTasks[t].op = "createStaffMember"
    /\ StaffCatch(t, "createStaffMember")

updateStaffMember_start(t, userId, role) ==
    /\ t \in StaffTaskIds
    /\ StaffStart(t, "updateStaffMember",
                  Call("updateStaffMember", [userId |-> userId, role |-> role]))

updateStaffMember_done(t) ==
    /\ staffTasks[t].op = "updateStaffMember"
    /\ StaffDone(t, "updateStaffMember",
                 ReplaceById(staffMembers, staffTasks[t].call.args.userId,
                             staffTasks[t].resp.data))

updateStaffMember_failed(t) ==
    /\ staffTasks[t].op = "updateStaffMember"
    /\ StaffCatch(t, "updateStaffMember")

deleteStaffMember_start(t, userId) ==
    /\ t \in StaffTaskIds
    /\ StaffStart(t, "deleteStaffMember",
                  Call("deleteStaffMember", [userId |-> userId]))

deleteStaffMember_done(t) ==
    /\ staffTasks[t].op = "deleteStaffMember"
    /\ LET Others(member) == member.id # staffTasks[t].call.args.userId
       IN  StaffDone(t, "deleteStaffMember", SelectSeq(staffMembers, Others))

deleteStaffMember_failed(t) ==
    /\ staffTasks[t].op = "deleteStaffMember"
    /\ StaffCatch(t, "deleteStaffMember")

-----------------------------------------------------------------------------
(* Specifications *)

\* The stores as constructed, but for the POS store's menuItems and orders
StoreInitButPosTasks ==
    /\ isAuthenticated = FALSE
    /\ user = Null
    /\ authLoading = FALSE
    /\ authError = NoError
    /\ authTasks = [t \in AuthTaskIds |-> Idle]
    /\ selectedLocation = Null
    /\ locations = <<>>
    /\ locLoading = FALSE
    /\ locError = NoError
    /\ locTasks = [t \in LocTaskIds |-> Idle]
    /\ posLoading = FALSE
    /\ posError = NoError
    /\ isOffline = FALSE
    /\ offlinePayments = <<>>
    /\ idb = <<>>
    /\ queue = <<>>
    /\ staffMembers = <<>>
    /\ staffLoading = FALSE
    /\ staffError = NoError
    /\ staffTasks = [t \in StaffTaskIds |-> Idle]
    /\ ev = Event("init", "ok", Null, "", Null)

StoreInitButMenu ==
    /\ StoreInitButPosTasks
    /\ posTasks = [t \in PosTaskIds |-> Idle]

\* the backend tables empty
EmptyBackend ==
    /\ dbLocations = {}
    /\ dbMenu = {}
    /\ dbOrders = {}
    /\ dbTransactions = <<>>
    /\ dbStaff = {}

\* The stores as constructed
StoreInit ==
    /\ StoreInitButMenu
    /\ menuItems = <<>>
    /\ orders = <<>>

Init ==
    /\ StoreInit
    /\ EmptyBackend

\* The location store in front of any backend table
InitLoc ==
    /\ StoreInit
    /\ dbLocations \in InitialTables
    /\ dbMenu = {}
    /\ dbOrders = {}
    /\ dbTransactions = <<>>
    /\ dbStaff = {}

\* The location store; the auth store's user is an input of each call
NextLoc ==
    \/ \E loc \in SeqToSet(locations) \cup {Null} : setSelectedLocation(loc)
    \/ \E t \in LocTaskIds, u \in Users \cup {Null} : fetchLocations_start(t, u)
    \/ \E t \in LocTaskIds : fetchLocations_data(t)
    \/ \E t \in LocTaskIds : fetchLocations_error(t)

SpecLoc == InitLoc /\ [][NextLoc]_vars

\* Users the UI may hand to setUser in the auth specification
AuthUsers ==
    {[id |-> i, role |-> r, restaurantId |-> NoId, defaultLocationId |-> NoId,
      managedRestaurantIds |-> Null, preferredLanguage |-> "en"] :
        i \in UserIds, r \in AuthRoles}

\* The auth store
NextAuth ==
    \/ \E u \in AuthUsers \cup {Null} : setUser(u)
    \/ \E t \in AuthTaskIds : signIn_start(t)
    \/ \E t \in AuthTaskIds, i \in UserIds, r \in {"authError", "noUser", "user"} :
            signIn_auth(t, i, r)
    \/ \E t \in AuthTaskIds : signIn_profileError(t)
    \/ \E t \in AuthTaskIds, i \in UserIds : \E p \in Profiles(i) : signIn_profile(t, p)
    \/ \E t \in AuthTaskIds, f \in BOOLEAN : signIn_lastLogin(t, f)
    \/ \E t \in AuthTaskIds : signUp_start(t)
    \/ \E t \in AuthTaskIds, r \in {"authError", "noUser", "user"} : signUp_auth(t, r)
    \/ \E t \in AuthTaskIds, f \in BOOLEAN : signUp_profile(t, f)
    \/ \E t \in AuthTaskIds : signOut_start(t)
    \/ \E t \in AuthTaskIds, f \in BOOLEAN : signOut_done(t, f)
    \/ \E t \in AuthTaskIds, i \in UserIds, r \in AuthRoles : updateUserRole_start(t, i, r)
    \/ \E t \in AuthTaskIds, f \in BOOLEAN : updateUserRole_done(t, f)
    \/ \E t \in AuthTaskIds, l \in Languages : updateUserLanguage_start(t, l)
    \/ \E t \in AuthTaskIds, f \in BOOLEAN : updateUserLanguage_changed(t, f)
    \/ \E t \in AuthTaskIds, f \in BOOLEAN : updateUserLanguage_done(t, f)
    \/ \E t \in AuthTaskIds : resetPasswordForEmail_start(t)
    \/ \E t \in AuthTaskIds, f \in BOOLEAN : resetPasswordForEmail_done(t, f)

SpecAuth == Init /\ [][NextAuth]_vars

\* The POS store taking payments; the backend holds MaxOrders unpaid orders
InitPay ==
    /\ StoreInit
    /\ dbLocations = {}
    /\ dbMenu = {}
    /\ dbOrders = {MkOrder(i, "pending", "pending") : i \in OrderIds}
    /\ dbTransactions = <<>>
    /\ dbStaff = {}

Amounts == {10}
PaymentMethods == {"cash"}

NextPay ==
    \/ \E b \in BOOLEAN : setOfflineStatus(b)
    \/ \E t \in PosTaskIds, f \in BOOLEAN : pos_backend(t, f)
    \/ \E t \in PosTaskIds : initialize_start(t)
    \/ \E t \in PosTaskIds : initialize_menuItems(t)
    \/ \E t \in PosTaskIds : initialize_orders(t)
    \/ \E t \in PosTaskIds : initialize_done(t)
    \/ \E t \in PosTaskIds : initialize_failed(t)
    \/ \E t \in PosTaskIds, o \in OrderIds, a \in Amounts, pm \in PaymentMethods,
          d \in Details, id \in OfflineIds :
            processPayment_start(t, o, a, pm, d, id)
    \/ \E t \in PosTaskIds : processPayment_stored(t)
    \/ \E t \in PosTaskIds : processPayment_created(t)
    \/ \E t \in PosTaskIds : processPayment_statusUpdated(t)
    \/ \E t \in PosTaskIds : processPayment_refreshed(t)
    \/ \E t \in PosTaskIds : processPayment_failed(t)

SpecPay == InitPay /\ [][NextPay]_vars

\* The POS store taking split payments, its orders already loaded
InitSplit ==
    /\ StoreInitButMenu
    /\ menuItems = <<>>
    /\ dbLocations = {}
    /\ dbMenu = {}
    /\ dbOrders = {MkOrder(i, "pending", "pending") : i \in OrderIds}
    /\ dbTransactions = <<>>
    /\ dbStaff = {}
    /\ orders = ById(dbOrders)

\* Split payments while the store stays online
NextSplit ==
    \/ \E t \in PosTaskIds, f \in BOOLEAN : pos_backend(t, f)
    \/ \E t \in PosTaskIds, o \in OrderIds, ps \in PaymentLists,
          id \in OfflineIds :
            processSplitPayment_start(t, o, ps, id)
    \/ \E t \in PosTaskIds : processSplitPayment_created(t)
    \/ \E t \in PosTaskIds : processSplitPayment_statusUpdated(t)
    \/ \E t \in PosTaskIds : processSplitPayment_refreshed(t)
    \/ \E t \in PosTaskIds : processSplitPayment_failed(t)

SpecSplit == InitSplit /\ [][NextSplit]_vars

\* Split payments of the first order while connectivity comes and goes
NextSplitAny ==
    \/ \E b \in BOOLEAN : setOfflineStatus(b)
    \/ \E t \in PosTaskIds, f \in BOOLEAN : pos_backend(t, f)
    \/ \E t \in PosTaskIds, ps \in PaymentLists, id \in OfflineIds :
            processSplitPayment_start(t, 1, ps, id)
    \/ \E t \in PosTaskIds, id \in OfflineIds : processSplitPayment_stored(t, id)
    \/ \E t \in PosTaskIds : processSplitPayment_created(t)
    \/ \E t \in PosTaskIds : processSplitPayment_statusUpdated(t)
    \/ \E t \in PosTaskIds : processSplitPayment_refreshed(t)
    \/ \E t \in PosTaskIds : processSplitPayment_failed(t)

SpecSplitAny == InitSplit /\ [][NextSplitAny]_vars

\* Single and split payments of the first order while connectivity comes and
\* goes
NextBranch ==
    \/ \E b \in BOOLEAN : setOfflineStatus(b)
    \/ \E t \in PosTaskIds, f \in BOOLEAN : pos_backend(t, f)
    \/ \E t \in PosTaskIds, a \in Amounts, pm \in PaymentMethods, d \in Details,
          id \in OfflineIds :
            processPayment_start(t, 1, a, pm, d, id)
    \/ \E t \in PosTaskIds : processPayment_stored(t)
    \/ \E t \in PosTaskIds : processPayment_created(t)
    \/ \E t \in PosTaskIds : processPayment_statusUpdated(t)
    \/ \E t \in PosTaskIds : processPayment_refreshed(t)
    \/ \E t \in PosTaskIds : processPayment_failed(t)
    \/ \E t \in PosTaskIds, ps \in PaymentLists, id \in OfflineIds :
            processSplitPayment_start(t, 1, ps, id)
    \/ \E t \in PosTaskIds, id \in OfflineIds : processSplitPayment_stored(t, id)
    \/ \E t \in PosTaskIds : processSplitPayment_created(t)
    \/ \E t \in PosTaskIds : processSplitPayment_statusUpdated(t)
    \/ \E t \in PosTaskIds : processSplitPayment_refreshed(t)
    \/ \E t \in PosTaskIds : processSplitPayment_failed(t)

SpecBranch == InitSplit /\ [][NextBranch]_vars

\* The three stores share no state, so a session that drives one of them is
\* checked on its own: the tables the backend starts with say which store the
\* session drives (orders: the POS store, locations: the location store,
\* neither: the auth store).
PosSession == dbOrders # {}
LocSession == dbLocations # {}
AuthSession == dbOrders = {} /\ dbLocations = {}

InitLive ==
    /\ StoreInitButMenu
    /\ menuItems = <<>>
    /\ dbMenu = {}
    /\ dbTransactions = <<>>
    /\ dbStaff = {}
    /\ \/ /\ dbOrders = {MkOrder(i, "pending", "pending") : i \in OrderIds}
          /\ dbLocations = {}
       \/ /\ dbOrders = {}
          /\ dbLocations \in InitialTables
    /\ orders = ById(dbOrders)

\* useAuthStore.getState().user as fetchLocations may read it
LiveUsers == {MkUser(1, "store-manager", 1, NoId, Null), Null}

\* the calls the UI makes
LiveStarts ==
    \/ \E b \in BOOLEAN : PosSession /\ setOfflineStatus(b)
    \/ \E t \in PosTaskIds, ps \in PaymentLists, id \in OfflineIds :
            PosSession /\ processSplitPayment_start(t, 1, ps, id)
    \/ \E t \in LocTaskIds, u \in LiveUsers :
            LocSession /\ fetchLocations_start(t, u)
    \/ \E t \in LocTaskIds, id \in 1..(MaxLocs + 1) :
            LocSession /\ toggleLocationStatus_start(t, id)
    \/ \E u \in AuthUsers \cup {Null} : AuthSession /\ setUser(u)
    \/ \E t \in AuthTaskIds, l \in Languages :
            AuthSession /\ updateUserLanguage_start(t, l)

\* the steps of POS call t that follow a backend reply
PosResume(t) ==
    \/ \E id \in OfflineIds : processSplitPayment_stored(t, id)
    \/ processSplitPayment_created(t)
    \/ processSplitPayment_statusUpdated(t)
    \/ processSplitPayment_refreshed(t)
    \/ processSplitPayment_failed(t)

\* the backend replying to POS call t, with a result or an error
PosReply(t) == \E f \in BOOLEAN : pos_backend(t, f)

\* location call t receiving the backend's reply
LocResume(t) ==
    \/ fetchLocations_data(t)
    \/ fetchLocations_error(t)
    \/ toggleLocationStatus_updated(t)
    \/ toggleLocationStatus_error(t)

\* auth call t receiving the reply it awaits
AuthResume(t) ==
    \/ \E f \in BOOLEAN : updateUserLanguage_changed(t, f)
    \/ \E f \in BOOLEAN : updateUserLanguage_done(t, f)

NextLive ==
    \/ LiveStarts
    \/ \E t \in PosTaskIds : PosReply(t)
    \/ \E t \in PosTaskIds : PosResume(t)
    \/ \E t \in LocTaskIds : LocResume(t)
    \/ \E t \in AuthTaskIds : AuthResume(t)

\* Every awaited call returns and every continuation runs: JavaScript's event
\* loop runs each settled promise's continuation; the UI's calls are free.
FairLive ==
    /\ \A t \in PosTaskIds : WF_vars(PosReply(t)) /\ WF_vars(PosResume(t))
    /\ \A t \in LocTaskIds : WF_vars(LocResume(t))
    /\ \A t \in AuthTaskIds : WF_vars(AuthResume(t))

SpecLive == InitLive /\ [][NextLive]_vars /\ FairLive

\* a staff session: the backend holds no orders (see PosSession)
StaffSession == dbOrders = {}

\* The menu of a POS session and the staff list of a staff session, each in
\* front of any backend table, loaded or not
InitMerge ==
    /\ StoreInitButMenu
    /\ dbLocations = {}
    /\ dbTransactions = <<>>
    /\ orders = <<>>
    /\ \/ /\ dbOrders = {MkOrder(1, "pending", "pending")}
          /\ dbMenu \in {{MkMenuItem(i, 0) : i \in I} : I \in SUBSET (1..MaxMenu)}
          /\ menuItems \in {<<>>, ById(dbMenu)}
          /\ dbStaff = {}
          /\ staffMembers = <<>>
       \/ /\ dbOrders = {}
          /\ dbMenu = {}
          /\ menuItems = <<>>
          /\ dbStaff \in {{MkStaff(i, "server") : i \in I} : I \in SUBSET UserIds}
          /\ staffMembers \in {<<>>, ById(dbStaff)}

NextMerge ==
    \/ \E t \in PosTaskIds, f \in BOOLEAN : pos_backend(t, f)
    \/ \E t \in PosTaskIds, st \in StockLevels :
            PosSession /\ createMenuItem_start(t, MkMenuItem(NoId, st))
    \/ \E t \in PosTaskIds : createMenuItem_done(t)
    \/ \E t \in PosTaskIds : createMenuItem_failed(t)
    \/ \E t \in PosTaskIds, i \in 1..MaxMenu, st \in StockLevels :
            PosSession /\ updateMenuItem_start(t, i, [currentStock |-> st])
    \/ \E t \in PosTaskIds : updateMenuItem_done(t)
    \/ \E t \in PosTaskIds : updateMenuItem_failed(t)
    \/ \E t \in PosTaskIds, i \in 1..MaxMenu : PosSession /\ deleteMenuItem_start(t, i)
    \/ \E t \in PosTaskIds : deleteMenuItem_done(t)
    \/ \E t \in PosTaskIds : deleteMenuItem_failed(t)
    \/ \E t \in StaffTaskIds, f \in BOOLEAN : staff_backend(t, f)
    \/ \E t \in StaffTaskIds, r \in StaffRoles :
            StaffSession /\ createStaffMember_start(t, r)
    \/ \E t \in StaffTaskIds : createStaffMember_done(t)
    \/ \E t \in StaffTaskIds : createStaffMember_failed(t)
    \/ \E t \in StaffTaskIds, i \in UserIds, r \in StaffRoles :
            StaffSession /\ updateStaffMember_start(t, i, r)
    \/ \E t \in StaffTaskIds : updateStaffMember_done(t)
    \/ \E t \in StaffTaskIds : updateStaffMember_failed(t)
    \/ \E t \in StaffTaskIds, i \in UserIds : StaffSession /\ deleteStaffMember_start(t, i)
    \/ \E t \in StaffTaskIds : deleteStaffMember_done(t)
    \/ \E t \in StaffTaskIds : deleteStaffMember_failed(t)

SpecMerge == InitMerge /\ [][NextMerge]_vars

\* The POS store with its menu and orders loaded and two calls at a time, all
\* of them updates of menu item 1 or of order 1
InitOverlap ==
    /\ StoreInitButPosTasks
    /\ posTasks = [t \in OverlapTaskIds |-> Idle]
    /\ dbLocations = {}
    /\ dbMenu = {MkMenuItem(i, 0) : i \in MenuIds}
    /\ dbOrders = {MkOrder(i, "pending", "pending") : i \in OrderIds}
    /\ dbTransactions = <<>>
    /\ dbStaff = {}
    /\ menuItems = ById(dbMenu)
    /\ orders = ById(dbOrders)

NextOverlap ==
    \/ \E t \in OverlapTaskIds, f \in BOOLEAN : pos_backend(t, f)
    \/ \E t \in OverlapTaskIds, st \in StockLevels :
            updateMenuItem_start(t, 1, [currentStock |-> st])
    \/ \E t \in OverlapTaskIds : updateMenuItem_done(t)
    \/ \E t \in OverlapTaskIds : updateMenuItem_failed(t)
    \/ \E t \in OverlapTaskIds, st \in OrderStatuses :
            updateOrderStatus_start(t, 1, st)
    \/ \E t \in OverlapTaskIds : updateOrderStatus_done(t)
    \/ \E t \in OverlapTaskIds : updateOrderStatus_failed(t)

SpecOverlap == InitOverlap /\ [][NextOverlap]_vars

\* The POS store with its menu loaded and two calls at a time, all of them
\* restocks
NextRestockRace ==
    \/ \E t \in OverlapTaskIds, f \in BOOLEAN : pos_backend(t, f)
    \/ \E t \in OverlapTaskIds, m \in MenuIds, q \in Quantities, u \in StockUsers :
            restockMenuItem_start(t, m, q, u)
    \/ \E t \in OverlapTaskIds : restockMenuItem_done(t)
    \/ \E t \in OverlapTaskIds : restockMenuItem_failed(t)

SpecRestockRace == InitOverlap /\ [][NextRestockRace]_vars

\* The POS store of a session that goes offline and stays offline: it takes
\* single and split payments and asks for the queue to be drained
NextQueue ==
    \/ ~isOffline /\ setOfflineStatus(TRUE)
    \/ \E t \in PosTaskIds, f \in BOOLEAN : pos_backend(t, f)
    \/ \E t \in PosTaskIds, o \in OrderIds, a \in Amounts, pm \in PaymentMethods,
          d \in Details, id \in OfflineIds :
            isOffline /\ processPayment_start(t, o, a, pm, d, id)
    \/ \E t \in PosTaskIds : processPayment_stored(t)
    \/ \E t \in PosTaskIds : processPayment_failed(t)
    \/ \E t \in PosTaskIds, ps \in PaymentLists, id \in OfflineIds :
            isOffline /\ processSplitPayment_start(t, 1, ps, id)
    \/ \E t \in PosTaskIds, id \in OfflineIds : processSplitPayment_stored(t, id)
    \/ \E t \in PosTaskIds : processSplitPayment_failed(t)
    \/ \E t \in PosTaskIds : syncOfflineData_start(t)
    \/ \E t \in PosTaskIds : syncOfflineData_processed(t)
    \/ \E t \in PosTaskIds : syncOfflineData_menuItems(t)
    \/ \E t \in PosTaskIds : syncOfflineData_done(t)
    \/ \E t \in PosTaskIds : syncOfflineData_failed(t)

SpecQueue == InitPay /\ [][NextQueue]_vars

\* The users the location operations are called for
LocOpsUsers ==
    {MkUser(1, "store-manager", 1, NoId, Null),
     MkUser(2, "store-manager", 2, 2, Null), Null}

\* The location store with all its backend operations
NextLocOps ==
    \/ \E t \in LocTaskIds, u \in LocOpsUsers : fetchLocations_start(t, u)
    \/ \E t \in LocTaskIds : fetchLocations_data(t)
    \/ \E t \in LocTaskIds : fetchLocations_error(t)
    \/ \E t \in LocTaskIds, u \in LocOpsUsers, a \in BOOLEAN :
            createLocation_start(t, u, a)
    \/ \E t \in LocTaskIds : createLocation_inserted(t)
    \/ \E t \in LocTaskIds : createLocation_error(t)
    \/ \E t \in LocTaskIds, i \in 1..(MaxLocs + 1), a \in BOOLEAN :
            updateLocation_start(t, i, a)
    \/ \E t \in LocTaskIds : updateLocation_updated(t)
    \/ \E t \in LocTaskIds : updateLocation_error(t)
    \/ \E t \in LocTaskIds, i \in 1..(MaxLocs + 1) : deleteLocation_start(t, i)
    \/ \E t \in LocTaskIds : deleteLocation_deleted(t)
    \/ \E t \in LocTaskIds : deleteLocation_error(t)
    \/ \E t \in LocTaskIds, i \in 1..(MaxLocs + 1) : toggleLocationStatus_start(t, i)
    \/ \E t \in LocTaskIds : toggleLocationStatus_updated(t)
    \/ \E t \in LocTaskIds : toggleLocationStatus_error(t)

SpecLocOps == InitLoc /\ [][NextLocOps]_vars

\* The POS store of a session that goes offline, with two calls at a time:
\* payments of order 1 next to initialize and syncOfflinePayments
InitSyncRace ==
    /\ StoreInitButPosTasks
    /\ posTasks = [t \in OverlapTaskIds |-> Idle]
    /\ menuItems = <<>>
    /\ orders = <<>>
    /\ dbLocations = {}
    /\ dbMenu = {}
    /\ dbOrders = {MkOrder(1, "pending", "pending")}
    /\ dbTransactions = <<>>
    /\ dbStaff = {}

NextSyncRace ==
    \/ ~isOffline /\ setOfflineStatus(TRUE)
    \/ \E t \in OverlapTaskIds, f \in BOOLEAN : pos_backend(t, f)
    \/ \E t \in OverlapTaskIds, a \in Amounts, pm \in PaymentMethods, d \in Details,
          id \in OfflineIds :
            isOffline /\ processPayment_start(t, 1, a, pm, d, id)
    \/ \E t \in OverlapTaskIds : processPayment_stored(t)
    \/ \E t \in OverlapTaskIds : processPayment_failed(t)
    \/ \E t \in OverlapTaskIds : initialize_start(t)
    \/ \E t \in OverlapTaskIds : initialize_menuItems(t)
    \/ \E t \in OverlapTaskIds : initialize_orders(t)
    \/ \E t \in OverlapTaskIds : initialize_done(t)
    \/ \E t \in OverlapTaskIds : initialize_failed(t)
    \/ \E t \in OverlapTaskIds : syncOfflinePayments_start(t)
    \/ \E t \in OverlapTaskIds : syncOfflinePayments_processed(t)
    \/ \E t \in OverlapTaskIds : syncOfflinePayments_orders(t)
    \/ \E t \in OverlapTaskIds : syncOfflinePayments_done(t)
    \/ \E t \in OverlapTaskIds : syncOfflinePayments_failed(t)

SpecSyncRace == InitSyncRace /\ [][NextSyncRace]_vars

\* The POS store with two calls at a time: menu items being created next to
\* initialize reloading the menu
NextCreateRace ==
    \/ \E t \in OverlapTaskIds, f \in BOOLEAN : pos_backend(t, f)
    \/ \E t \in OverlapTaskIds, st \in StockLevels :
            createMenuItem_start(t, MkMenuItem(NoId, st))
    \/ \E t \in OverlapTaskIds : createMenuItem_done(t)
    \/ \E t \in OverlapTaskIds : createMenuItem_failed(t)
    \/ \E t \in OverlapTaskIds : initialize_start(t)
    \/ \E t \in OverlapTaskIds : initialize_menuItems(t)
    \/ \E t \in OverlapTaskIds : initialize_orders(t)
    \/ \E t \in OverlapTaskIds : initialize_done(t)
    \/ \E t \in OverlapTaskIds : initialize_failed(t)

SpecCreateRace == InitSyncRace /\ [][NextCreateRace]_vars

\* The POS store keeping stock: the menu loaded, every item at any stock level
\* or without one
InitStock ==
    /\ StoreInitButMenu
    /\ orders = <<>>
    /\ dbLocations = {}
    /\ dbMenu \in {{MkMenuItem(i, st[i]) : i \in MenuIds} :
                        st \in [MenuIds -> StockLevels \cup {NoNumber}]}
    /\ dbOrders = {}
    /\ dbTransactions = <<>>
    /\ dbStaff = {}
    /\ menuItems = ById(dbMenu)

NextStock ==
    \/ \E t \in PosTaskIds, f \in BOOLEAN : pos_backend(t, f)
    \/ \E t \in PosTaskIds, m \in 1..(MaxItems + 1), q \in Quantities,
          u \in StockUsers : restockMenuItem_start(t, m, q, u)
    \/ \E t \in PosTaskIds : restockMenuItem_done(t)
    \/ \E t \in PosTaskIds : restockMenuItem_failed(t)
    \/ \E t \in PosTaskIds, m \in 1..(MaxItems + 1), n \in StockLevels,
          u \in StockUsers : adjustMenuItemStock_start(t, m, n, u)
    \/ \E t \in PosTaskIds : adjustMenuItemStock_done(t)
    \/ \E t \in PosTaskIds : adjustMenuItemStock_failed(t)
    \/ \E t \in PosTaskIds, m \in 1..(MaxItems + 1), q \in Quantities,
          u \in StockUsers : recordWaste_start(t, m, q, u)
    \/ \E t \in PosTaskIds : recordWaste_done(t)
    \/ \E t \in PosTaskIds : recordWaste_failed(t)

SpecStock == InitStock /\ [][NextStock]_vars

\* The staff store over a backend that holds any staff
InitStaff ==
    /\ StoreInit
    /\ dbLocations = {}
    /\ dbMenu = {}
    /\ dbOrders = {}
    /\ dbTransactions = <<>>
    /\ dbStaff \in {{MkStaff(i, "server") : i \in I} : I \in SUBSET UserIds}

NextStaff ==
    \/ \E t \in StaffTaskIds, f \in BOOLEAN : staff_backend(t, f)
    \/ \E t \in StaffTaskIds : fetchStaffMembers_start(t)
    \/ \E t \in StaffTaskIds : fetchStaffMembers_done(t)
    \/ \E t \in StaffTaskIds : fetchStaffMembers_failed(t)
    \/ \E t \in StaffTaskIds, r \in StaffRoles : createStaffMember_start(t, r)
    \/ \E t \in StaffTaskIds : createStaffMember_done(t)
    \/ \E t \in StaffTaskIds : createStaffMember_failed(t)
    \/ \E t \in StaffTaskIds, i \in UserIds, r \in StaffRoles :
            updateStaffMember_start(t, i, r)
    \/ \E t \in StaffTaskIds : updateStaffMember_done(t)
    \/ \E t \in StaffTaskIds : updateStaffMember_failed(t)
    \/ \E t \in StaffTaskIds, i \in UserIds : deleteStaffMember_start(t, i)
    \/ \E t \in StaffTaskIds : deleteStaffMember_done(t)
    \/ \E t \in StaffTaskIds : deleteStaffMember_failed(t)

SpecStaff == InitStaff /\ [][NextStaff]_vars

\* The user the location store reads while lists are fetched
ReadUsers == {MkUser(1, "super-admin", NoId, NoId, Null), Null}

\* The three stores over a backend that holds locations, staff, a menu and orders
InitRead ==
    /\ StoreInit
    /\ dbLocations = {Row(i, TRUE, 1) : i \in LocationIds}
    /\ dbMenu = {MkMenuItem(i, 0) : i \in MenuIds}
    /\ dbOrders = {MkOrder(i, "pending", "pending") : i \in OrderIds}
    /\ dbTransactions = <<>>
    /\ dbStaff = {MkStaff(i, "server") : i \in UserIds}

\* The read, list and sync operations of the stores
NextRead ==
    \/ \E t \in LocTaskIds, u \in ReadUsers : fetchLocations_start(t, u)
    \/ \E t \in LocTaskIds : fetchLocations_data(t)
    \/ \E t \in LocTaskIds : fetchLocations_error(t)
    \/ \E t \in StaffTaskIds, f \in BOOLEAN : staff_backend(t, f)
    \/ \E t \in StaffTaskIds : fetchStaffMembers_start(t)
    \/ \E t \in StaffTaskIds : fetchStaffMembers_done(t)
    \/ \E t \in StaffTaskIds : fetchStaffMembers_failed(t)
    \/ \E t \in PosTaskIds, f \in BOOLEAN : pos_backend(t, f)
    \/ \E t \in PosTaskIds : initialize_start(t)
    \/ \E t \in PosTaskIds : initialize_menuItems(t)
    \/ \E t \in PosTaskIds : initialize_orders(t)
    \/ \E t \in PosTaskIds : initialize_done(t)
    \/ \E t \in PosTaskIds : initialize_failed(t)
    \/ \E t \in PosTaskIds : syncOfflineData_start(t)
    \/ \E t \in PosTaskIds : syncOfflineData_processed(t)
    \/ \E t \in PosTaskIds : syncOfflineData_menuItems(t)
    \/ \E t \in PosTaskIds : syncOfflineData_done(t)
    \/ \E t \in PosTaskIds : syncOfflineData_failed(t)
    \/ \E t \in PosTaskIds : syncOfflinePayments_start(t)
    \/ \E t \in PosTaskIds : syncOfflinePayments_processed(t)
    \/ \E t \in PosTaskIds : syncOfflinePayments_orders(t)
    \/ \E t \in PosTaskIds : syncOfflinePayments_done(t)
    \/ \E t \in PosTaskIds : syncOfflinePayments_failed(t)

SpecRead == InitRead /\ [][NextRead]_vars

\* The users the location store reads when a location is created
PreUsers ==
    {Null, MkUser(1, "store-manager", NoId, NoId, Null),
     MkUser(1, "store-manager", 1, NoId, Null)}

\* The menu loaded, every item out of stock, no location yet
InitPre ==
    /\ StoreInitButMenu
    /\ orders = <<>>
    /\ dbLocations = {}
    /\ dbMenu = {MkMenuItem(i, 0) : i \in MenuIds}
    /\ dbOrders = {}
    /\ dbTransactions = <<>>
    /\ dbStaff = {}
    /\ menuItems = ById(dbMenu)

\* The operations that check a precondition before they call the backend
NextPre ==
    \/ \E t \in PosTaskIds, f \in BOOLEAN : pos_backend(t, f)
    \/ \E t \in PosTaskIds, m \in 1..(MaxItems + 1), u \in StockUsers :
            restockMenuItem_start(t, m, 1, u)
    \/ \E t \in PosTaskIds : restockMenuItem_done(t)
    \/ \E t \in PosTaskIds : restockMenuItem_failed(t)
    \/ \E t \in PosTaskIds, m \in 1..(MaxItems + 1), u \in StockUsers :
            adjustMenuItemStock_start(t, m, 0, u)
    \/ \E t \in PosTaskIds : adjustMenuItemStock_done(t)
    \/ \E t \in PosTaskIds : adjustMenuItemStock_failed(t)
    \/ \E t \in PosTaskIds, m \in 1..(MaxItems + 1), u \in StockUsers :
            recordWaste_start(t, m, 1, u)
    \/ \E t \in PosTaskIds : recordWaste_done(t)
    \/ \E t \in PosTaskIds : recordWaste_failed(t)
    \/ \E t \in LocTaskIds, u \in PreUsers, a \in BOOLEAN : createLocation_start(t, u, a)
    \/ \E t \in LocTaskIds : createLocation_inserted(t)
    \/ \E t \in LocTaskIds : createLocation_error(t)
    \/ \E t \in LocTaskIds, i \in 1..(MaxLocs + 1) : toggleLocationStatus_start(t, i)
    \/ \E t \in LocTaskIds : toggleLocationStatus_updated(t)
    \/ \E t \in LocTaskIds : toggleLocationStatus_error(t)

SpecPre == InitPre /\ [][NextPre]_vars

-----------------------------------------------------------------------------
(* Properties of fetchLocations *)

\* the step just taken completed a fetch that published the backend's rows
FetchPublished ==
    /\ ev.op = "fetchLocations"
    /\ ev.outcome = "ok"
    /\ ev.task.user # Null

Caller == ev.task.user

IsAdminRole(r) == r = "super-admin" \/ r = "sub-super-admin"

\* ids of the backend rows owned by a restaurant in R
RowIdsOf(R) == {r.id : r \in {x \in dbLocations : x.restaurant_id \in R}}

PublishedIds == {locations[i].id : i \in 1..Len(locations)}

\* C5: for a caller whose role is neither super-admin nor sub-super-admin,
\* every location fetchLocations publishes belongs to the caller's restaurant.
C5_OnlyOwnRestaurant ==
    (FetchPublished /\ ~IsAdminRole(Caller.role)) =>
        \A i \in 1..Len(locations) :
            locations[i].restaurant_id = Caller.restaurantId

C5_Witness ==
    /\ FetchPublished
    /\ ~IsAdminRole(Caller.role)
    /\ Len(locations) > 0
    /\ \E r \in dbLocations : r.restaurant_id # Caller.restaurantId

\* C6: for a sub-super-admin with a non-empty managed set the published
\* locations are exactly the backend rows of the managed restaurants; for a
\* super-admin, or a sub-super-admin without a managed set, they are all the
\* backend rows.
C6_ManagedExactly ==
    FetchPublished =>
        /\ Len(locations) = Cardinality(PublishedIds)
        /\ (/\ Caller.role = "sub-super-admin"
            /\ Caller.managedRestaurantIds # Null
            /\ Caller.managedRestaurantIds.ids # {})
           => PublishedIds = RowIdsOf(Caller.managedRestaurantIds.ids)
        /\ (\/ Caller.role = "super-admin"
            \/ Caller.role = "sub-super-admin" /\ Caller.managedRestaurantIds = Null)
           => PublishedIds = {r.id : r \in dbLocations}
        /\ \A i \in 1..Len(locations) : \E r \in dbLocations :
            /\ r.id = locations[i].id
            /\ r.restaurant_id = locations[i].restaurant_id
            /\ r.is_active = locations[i].isActive

C6_Witness ==
    /\ FetchPublished
    /\ Caller.role = "sub-super-admin"
    /\ Caller.managedRestaurantIds # Null
    /\ Caller.managedRestaurantIds.ids # {}
    /\ Len(locations) > 0
    /\ \E r \in dbLocations : r.restaurant_id \notin Caller.managedRestaurantIds.ids

DefaultFetched ==
    /\ Caller.defaultLocationId # NoId
    /\ Caller.defaultLocationId \in PublishedIds

\* C7: when the caller's defaultLocationId is the id of a fetched location,
\* that location is selected after the fetch, active or not.
C7_DefaultSelected ==
    (FetchPublished /\ DefaultFetched) =>
        /\ selectedLocation # Null
        /\ selectedLocation.id = Caller.defaultLocationId
        /\ selectedLocation \in SeqToSet(locations)

C7_Witness ==
    /\ FetchPublished
    /\ DefaultFetched
    /\ ~selectedLocation.isActive
    /\ \E i \in 1..Len(locations) : locations[i].isActive

ActiveIndexes == {i \in 1..Len(locations) : locations[i].isActive}

FirstActiveIndex == CHOOSE i \in ActiveIndexes : \A j \in ActiveIndexes : i <= j

\* C8: without a default, or with one that matches no fetched location, the
\* first active fetched location is selected; when none is active and the
\* list is not empty, the first fetched location.
C8_FirstActiveSelected ==
    (FetchPublished /\ ~DefaultFetched) =>
        /\ ActiveIndexes # {} => selectedLocation = locations[FirstActiveIndex]
        /\ (ActiveIndexes = {} /\ Len(locations) > 0) => selectedLocation = locations[1]

C8_Witness ==
    /\ FetchPublished
    /\ Caller.defaultLocationId # NoId
    /\ ~DefaultFetched
    /\ ActiveIndexes # {}
    /\ FirstActiveIndex > 1
    /\ selectedLocation = locations[FirstActiveIndex]

\* C9: when fetchLocations yields no locations (no signed-in user, or an
\* empty result), no location is selected after the fetch.
C9_NoneSelectedWhenEmpty ==
    (ev.op = "fetchLocations" /\ ev.outcome = "ok" /\ Len(locations) = 0) =>
        selectedLocation = Null

-----------------------------------------------------------------------------
(* Properties of the auth store *)

SignInFailed == ev.op = "signIn" /\ ev.outcome = "caught"

\* C3: when signIn fails (authentication error, no user returned, profile
\* fetch error), the store is signed out once signIn has completed:
\* isAuthenticated = FALSE and user = null, whoever was signed in before.
C3_SignInFailureSignsOut ==
    SignInFailed =>
        /\ ev.why \in {"authError", "noUser", "profileError"}
        /\ isAuthenticated = FALSE
        /\ user = Null
        /\ authError # NoError

C3_Witness ==
    /\ SignInFailed
    /\ ev.why = "profileError"
    /\ ev.before.user # Null
    /\ ev.before.isAuthenticated
    /\ user = Null

-----------------------------------------------------------------------------
(* Properties of the payment operations *)

OfflinePaymentDone ==
    /\ ev.op = "processPayment"
    /\ ev.outcome = "ok"
    /\ ev.task.offline

\* the step just taken wrote task's offline payment record to IndexedDB
OfflinePaymentWritten ==
    /\ ev.op = "backend"
    /\ ev.task.op = "processPayment"
    /\ ev.task.call.fn = "storeOfflinePayment"
    /\ ev.task.resp.status = "ok"

\* C1: a processPayment call started while isOffline is true writes exactly
\* one record to the offline-payment storage, appends that record to
\* offlinePayments, marks the referenced order completed and paid, enqueues
\* exactly one deferred 'processPayment' operation, and calls no backend
\* function.
C1_OfflinePayment ==
    /\ OfflinePaymentWritten =>
        /\ idb = Append(ev.before.idb, ev.task.call.args)
        /\ ev.task.call.args.orderId = ev.task.orderId
    /\ OfflinePaymentDone =>
        /\ ev.task.log = <<"storeOfflinePayment", "addToQueue">>
        /\ offlinePayments = Append(ev.before.offlinePayments, ev.task.call.args)
        /\ Len(queue) = Len(ev.before.queue) + 1
        /\ SubSeq(queue, 1, Len(ev.before.queue)) = ev.before.queue
        /\ queue[Len(queue)].operationName = "processPayment"
        /\ queue[Len(queue)].payload.orderId = ev.task.orderId
        /\ Len(orders) = Len(ev.before.orders)
        /\ \A i \in 1..Len(orders) :
            IF orders[i].id = ev.task.orderId
            THEN orders[i].status = "completed" /\ orders[i].paymentStatus = "paid"
            ELSE orders[i] = ev.before.orders[i]

C1_Witness ==
    /\ OfflinePaymentDone
    /\ \E i \in 1..Len(orders) :
        /\ orders[i].id = ev.task.orderId
        /\ ev.before.orders[i].paymentStatus = "pending"
        /\ orders[i].paymentStatus = "paid"
    /\ ev.task.call.args \in SeqToSet(idb)
    /\ Len(queue) = 1

SplitOnlineDone ==
    /\ ev.op = "processSplitPayment"
    /\ ev.outcome = "ok"
    /\ ~ev.task.offline

\* the calls an online split payment of n sub-payments makes, in order
SplitOnlineCalls(n) ==
    [k \in 1..(n + 2) |->
        IF k <= n THEN "createPayment"
        ELSE IF k = n + 1 THEN "updateOrderStatus" ELSE "getOrders"]

\* C2: an online processSplitPayment with N sub-payments that completes has
\* made exactly N createPayment calls, then one updateOrderStatus call, then
\* one getOrders call, and nothing else.
C2_SplitOnlineCalls ==
    SplitOnlineDone => ev.task.log = SplitOnlineCalls(Len(ev.task.payments))

C2_Witness ==
    /\ SplitOnlineDone
    /\ Len(ev.task.payments) = MaxSplit
    /\ Len(ev.task.log) = MaxSplit + 2

\* recordWaste has just handed its update to the backend
WasteIssued ==
    /\ ev.op = "recordWaste"
    /\ ev.outcome = "pending"
    /\ ev.task.pc = "updateMenuItemStock"

\* the backend has just applied the update of a recordWaste
WasteApplied ==
    /\ ev.op = "backend"
    /\ ev.task.op = "recordWaste"
    /\ ev.task.resp.status = "ok"

\* C4: for cached stock s and waste quantity q >= 0, recordWaste sends the
\* backend the new stock max(0, s - q), never a negative one, with the
\* quantity change -q and the transaction kind 'waste'; the backend then
\* holds that stock and a transaction with that change.
C4_WasteNeverNegative ==
    /\ WasteIssued =>
         LET sent == ev.task.call.args
             s == CachedStock(ev.task.menuItemId)
             q == ev.task.arg
         IN  /\ sent.newStock >= 0
             /\ (q <= s => sent.newStock = s - q)
             /\ (q > s => sent.newStock = 0)
             /\ sent.quantityChange = 0 - q
             /\ sent.type = "waste"
    /\ WasteApplied =>
         /\ \A m \in dbMenu :
               m.id = ev.task.menuItemId => m.currentStock = ev.task.call.args.newStock
         /\ \A m \in dbMenu : m.id = ev.task.menuItemId => m.currentStock >= 0
         /\ dbTransactions = Append(ev.before.dbTransactions, ev.task.call.args)

\* one more is wasted than the stock holds, and the stock is not zero
C4_Witness ==
    /\ WasteApplied
    /\ CachedStock(ev.task.menuItemId) = MaxStock
    /\ ev.task.arg = MaxStock + 1
    /\ ev.task.call.args.newStock = 0
    /\ ev.task.call.args.quantityChange = 0 - (MaxStock + 1)
    /\ Len(dbTransactions) > 0

StaffWriteOps == {"createStaffMember", "updateStaffMember", "deleteStaffMember"}

\* C10: a create, update or delete of the staff store whose backend call
\* failed has recorded the failure in error and re-thrown it to the caller.
C10_WritesRethrow ==
    (ev.op \in StaffWriteOps /\ ev.outcome \in {"caught", "thrown"}) =>
        /\ staffError # NoError
        /\ ev.outcome = "thrown"

ReadOps ==
    {"fetchLocations", "fetchStaffMembers", "initialize", "syncOfflineData",
     "syncOfflinePayments"}

\* a read, list or sync operation has just ended on a failed backend call
ReadFailed == ev.op \in ReadOps /\ ev.outcome \in {"caught", "thrown"}

\* C11: a read, list or sync operation whose backend call failed returns
\* normally, with error set, isLoading false and the collections its store
\* had published left as they were.
C11_ReadsSwallowFailure ==
    ReadFailed =>
        /\ ev.outcome = "caught"
        /\ ev.op = "fetchLocations" =>
              /\ locError # NoError
              /\ ~locLoading
              /\ locations = ev.before.locations
        /\ ev.op = "fetchStaffMembers" =>
              /\ staffError # NoError
              /\ ~staffLoading
              /\ staffMembers = ev.before.staffMembers
        /\ ev.op \in {"initialize", "syncOfflineData", "syncOfflinePayments"} =>
              /\ posError # NoError
              /\ ~posLoading
              /\ menuItems = ev.before.menuItems
              /\ orders = ev.before.orders
              /\ offlinePayments = ev.before.offlinePayments

\* a sync fails on its last call with orders published before
C11_Witness ==
    /\ ReadFailed
    /\ ev.op = "syncOfflineData"
    /\ ev.why = "getOrders"
    /\ orders # <<>>
    /\ locations # <<>>
    /\ staffMembers # <<>>

StockOps == {"restockMenuItem", "adjustMenuItemStock", "recordWaste"}

\* an operation has just failed on a precondition it checks itself
PreconditionFailed ==
    /\ ev.outcome = "thrown"
    /\ ev.why \in {"Menu item not found", "User not authenticated",
                   "User not associated with a restaurant", "Location not found"}

\* an operation has just sent its first call to the backend
FirstCallSent ==
    /\ ev.outcome = "pending"
    /\ ev.op \in StockOps => Len(ev.task.log) = 1

\* C12: restockMenuItem, adjustMenuItemStock and recordWaste contact the
\* backend only for a cached menu item and an authenticated user,
\* createLocation only for a user with a restaurantId, toggleLocationStatus
\* only for a cached location; otherwise they fail, no call is in flight and
\* the cached collection and the backend are as they were.
C12_PreconditionsGuardBackend ==
    /\ (PreconditionFailed /\ ev.op \in StockOps) =>
          /\ ev.task.log = <<>>
          /\ \A t \in PosTaskIds : posTasks[t] = Idle
          /\ menuItems = ev.before.menuItems
          /\ posError # NoError
    /\ (PreconditionFailed /\ ev.op \in {"createLocation", "toggleLocationStatus"}) =>
          /\ \A t \in LocTaskIds : locTasks[t] = Idle
          /\ locations = ev.before.locations
          /\ dbLocations = ev.before.dbLocations
          /\ locError # NoError
    /\ (FirstCallSent /\ ev.op \in StockOps) =>
          /\ FindMenuItem(ev.task.menuItemId) # Null
          /\ ev.task.call.args.userId # NoId
    /\ (FirstCallSent /\ ev.op = "createLocation") => ev.task.restaurant_id # NoId
    /\ (FirstCallSent /\ ev.op = "toggleLocationStatus") =>
          FindLocation(ev.task.id) # Null
    /\ (ev.outcome = "thrown" /\ ev.op \in StockOps /\ ev.task.log = <<>>) =>
          PreconditionFailed

\* createLocation fails on its precondition with a location in the cache
C12_Witness ==
    /\ PreconditionFailed
    /\ ev.op = "createLocation"
    /\ locations # <<>>
    /\ dbTransactions # <<>>

\* task t is an online processPayment awaiting `call`
OnlinePaymentAt(tasks, t, call) ==
    /\ tasks[t].op = "processPayment"
    /\ ~tasks[t].offline
    /\ tasks[t].pc = call

\* task t has the backend's success for `call`
SucceededAt(t, call) ==
    /\ posTasks[t].op = "processPayment"
    /\ posTasks[t].pc = call
    /\ posTasks[t].resp.status = "ok"

\* C13: an online processPayment issues updateOrderStatus only in a step taken
\* with createPayment's success in hand, and getOrders only with
\* updateOrderStatus's success in hand; when createPayment fails the call
\* ends having issued nothing else and leaves orders as they were.
C13_PaymentCallsInOrder ==
    [][ /\ \A t \in PosTaskIds :
            /\ (OnlinePaymentAt(posTasks', t, "updateOrderStatus")
                    /\ posTasks'[t] # posTasks[t] /\ posTasks'[t].resp = NoResp)
                 => SucceededAt(t, "createPayment")
            /\ (OnlinePaymentAt(posTasks', t, "getOrders")
                    /\ posTasks'[t] # posTasks[t] /\ posTasks'[t].resp = NoResp)
                 => SucceededAt(t, "updateOrderStatus")
        /\ (ev'.op = "processPayment" /\ ev'.outcome = "thrown"
                /\ ev'.why = "createPayment")
             => /\ ev'.task.log = <<"createPayment">>
                /\ orders' = orders
                /\ dbOrders' = dbOrders
      ]_vars

\* createPayment fails with orders loaded
C13_Witness ==
    /\ ev.op = "processPayment"
    /\ ev.outcome = "thrown"
    /\ ev.why = "createPayment"
    /\ orders # <<>>

SubPaymentWrites == {"createPayment", "storeOfflinePayment"}

\* how many sub-payment writes a log holds
WritesIn(log) ==
    LET IsWrite(fn) == fn \in SubPaymentWrites IN Len(SelectSeq(log, IsWrite))

\* this step sends a call of the processSplitPayment in slot t
SplitIssues(t) ==
    /\ posTasks'[t].op = "processSplitPayment"
    /\ posTasks'[t] # posTasks[t]
    /\ posTasks'[t].resp = NoResp

\* the processSplitPayment in slot t holds the success of sub-payment i's write
SubPaymentSucceeded(t, i) ==
    /\ posTasks[t].op = "processSplitPayment"
    /\ posTasks[t].pc \in SubPaymentWrites
    /\ posTasks[t].resp.status = "ok"
    /\ posTasks[t].i = i

\* C14: within one processSplitPayment the write of sub-payment 1 goes out at
\* the start and the write of sub-payment i + 1 only in a step that holds the
\* success of sub-payment i's write, each for the list's element at that
\* place; the order-status update goes out only after the last sub-payment
\* succeeded; a call that fails at sub-payment i has issued i writes, no
\* order-status update, and leaves orders as they were.
C14_SubPaymentsSequential ==
    [][ /\ \A t \in PosTaskIds :
            /\ (SplitIssues(t) /\ posTasks'[t].pc \in SubPaymentWrites) =>
                  LET i == posTasks'[t].i IN
                  /\ i \in 1..Len(posTasks'[t].payments)
                  /\ posTasks'[t].call.args.amount = posTasks'[t].payments[i].amount
                  /\ WritesIn(posTasks'[t].log) = i
                  /\ IF i = 1 THEN posTasks[t] = Idle
                     ELSE SubPaymentSucceeded(t, i - 1)
            /\ (SplitIssues(t) /\ posTasks'[t].pc = "updateOrderStatus") =>
                  /\ WritesIn(posTasks'[t].log) = Len(posTasks'[t].payments)
                  /\ IF posTasks'[t].payments = <<>> THEN posTasks[t] = Idle
                     ELSE SubPaymentSucceeded(t, Len(posTasks'[t].payments))
        /\ (ev'.op = "processSplitPayment" /\ ev'.outcome = "thrown"
                /\ ev'.why \in SubPaymentWrites) =>
              /\ WritesIn(ev'.task.log) = ev'.task.i
              /\ \A k \in 1..Len(ev'.task.log) : ev'.task.log[k] # "updateOrderStatus"
              /\ orders' = orders
              /\ dbOrders' = dbOrders
      ]_vars

\* offline, the second sub-payment's write fails
C14_Witness ==
    /\ ev.op = "processSplitPayment"
    /\ ev.outcome = "thrown"
    /\ ev.why = "storeOfflinePayment"
    /\ ev.task.i = 2
    /\ Len(offlinePayments) = 1


\* C15: no step of signUp, successful or failed, changes user or
\* isAuthenticated: signing up never signs in.
C15_SignUpNeverSignsIn ==
    [][ ev'.op = "signUp" =>
            /\ user' = user
            /\ isAuthenticated' = isAuthenticated ]_vars

\* a signUp has completed successfully while nobody is signed in
C15_Witness ==
    /\ ev.op = "signUp"
    /\ ev.outcome = "ok"
    /\ user = Null
    /\ ~isAuthenticated

\* C16: when signOut has completed, the user is null and the store is not
\* authenticated.
C16_SignOutClearsUser ==
    (ev.op = "signOut" /\ ev.outcome \in {"ok", "caught"}) =>
        /\ user = Null
        /\ ~isAuthenticated

RoleOrLanguageOps == {"updateUserRole", "updateUserLanguage"}

\* C17: a step of updateUserRole or updateUserLanguage never changes
\* isAuthenticated and changes user only when the backend update succeeded,
\* and then only role (updateUserRole, for the signed-in user's own id) or
\* preferredLanguage (updateUserLanguage); a failed update and an
\* updateUserRole for another id leave user as it was.
C17_RoleAndLanguagePatchOneField ==
    [][ ev'.op \in RoleOrLanguageOps =>
            /\ isAuthenticated' = isAuthenticated
            /\ \/ user' = user
               \/ /\ ev'.outcome = "ok"
                  /\ ev'.task.pc = "update"
                  /\ user # Null
                  /\ \/ /\ ev'.op = "updateUserRole"
                        /\ ev'.task.id = user.id
                        /\ user' = [user EXCEPT !.role = ev'.task.role]
                     \/ /\ ev'.op = "updateUserLanguage"
                        /\ user' = [user EXCEPT
                                      !.preferredLanguage = ev'.task.language]
            /\ ev'.outcome # "ok" => user' = user
            /\ (ev'.op = "updateUserRole"
                    /\ (user = Null \/ ev'.task.id # user.id)) => user' = user
      ]_vars

\* updateUserRole has succeeded for an id other than the signed-in user's
C17_Witness ==
    /\ ev.op = "updateUserRole"
    /\ ev.outcome = "ok"
    /\ user # Null
    /\ ev.task.id # user.id
    /\ ev.task.role # user.role

\* C18: signIn has the store signed in (user set, isAuthenticated, no error)
\* before it issues the last-login update, and the step that receives the
\* update's result, failed or not, changes none of the three.
C18_LastLoginFailureKeepsSignedIn ==
    [][ /\ (ev'.op = "signIn" /\ ev'.outcome = "pending"
                /\ ev'.task.pc = "lastLogin") =>
              /\ isAuthenticated'
              /\ user' # Null
              /\ authError' = NoError
        /\ (ev'.op = "signIn" /\ ev'.why = "lastLoginError") =>
              /\ ev'.outcome = "ok"
              /\ user' = user
              /\ isAuthenticated' = isAuthenticated
              /\ authError' = authError
      ]_vars

\* a signIn whose last-login update failed has completed, still signed in
C18_Witness ==
    /\ ev.op = "signIn"
    /\ ev.outcome = "ok"
    /\ ev.why = "lastLoginError"
    /\ isAuthenticated
    /\ user # Null
    /\ authError = NoError


\* restockMenuItem or adjustMenuItemStock has just handed its update to the
\* backend
StockWriteIssued(o) ==
    /\ ev.op = o
    /\ ev.outcome = "pending"
    /\ ev.task.pc = "updateMenuItemStock"

\* the backend has just applied the update of a restock or an adjustment
StockWriteApplied ==
    /\ ev.op = "backend"
    /\ ev.task.op \in {"restockMenuItem", "adjustMenuItemStock"}
    /\ ev.task.resp.status = "ok"

\* C19: for cached stock s (0 when the item has none), restockMenuItem with
\* quantity q sends newStock s + q, change q and kind 'restock';
\* adjustMenuItemStock with target n sends newStock n, change n - s and kind
\* 'adjustment'; in both the stock sent is s plus the change sent, the user id
\* sent is a signed-in user's, and the backend then holds that stock and a
\* transaction with those values.
C19_RestockAndAdjustArithmetic ==
    /\ StockWriteIssued("restockMenuItem") =>
         LET sent == ev.task.call.args
             s == CachedStock(ev.task.menuItemId)
         IN  /\ sent.newStock = s + ev.task.arg
             /\ sent.quantityChange = ev.task.arg
             /\ sent.type = "restock"
             /\ sent.newStock = s + sent.quantityChange
             /\ sent.userId \in StockUsers \ {NoId}
    /\ StockWriteIssued("adjustMenuItemStock") =>
         LET sent == ev.task.call.args
             s == CachedStock(ev.task.menuItemId)
         IN  /\ sent.newStock = ev.task.arg
             /\ sent.quantityChange = ev.task.arg - s
             /\ sent.type = "adjustment"
             /\ sent.newStock = s + sent.quantityChange
             /\ sent.userId \in StockUsers \ {NoId}
    /\ StockWriteApplied =>
         /\ \A m \in dbMenu :
               m.id = ev.task.menuItemId => m.currentStock = ev.task.call.args.newStock
         /\ dbTransactions = Append(ev.before.dbTransactions, ev.task.call.args)

\* an item holding stock has been restocked by nothing: its stock is kept
C19_Witness ==
    /\ StockWriteApplied
    /\ ev.task.op = "restockMenuItem"
    /\ CachedStock(ev.task.menuItemId) = MaxStock
    /\ ev.task.arg = 0
    /\ ev.task.call.args.newStock = MaxStock
    /\ Len(dbTransactions) > 0


\* C20: the step that starts a POS store operation sets isLoading and clears
\* error, so no error of an earlier operation is visible once a later one has
\* started.
C20_StartClearsError ==
    [][ \A t \in PosTaskIds :
            (posTasks[t] = Idle /\ posTasks'[t] # Idle) =>
                /\ posLoading'
                /\ posError' = NoError ]_vars


LiveOps ==
    {"processSplitPayment", "fetchLocations", "toggleLocationStatus",
     "updateUserLanguage"}

CountId(items, id) == Cardinality({i \in 1..Len(items) : items[i].id = id})

\* `after` is `before` with exactly the entries of id `id` replaced by `updated`
MergedUpdate(before, after, id, updated) ==
    /\ Len(after) = Len(before)
    /\ \A i \in 1..Len(before) :
          after[i] = IF before[i].id = id THEN updated ELSE before[i]

\* `after` is `before` without exactly the entries of id `id`, in order
MergedDelete(before, after, id) ==
    LET Others(e) == e.id # id
    IN  /\ after = SelectSeq(before, Others)
        /\ CountId(after, id) = 0
        /\ Len(after) = Len(before) - CountId(before, id)

\* `after` is `before` with `created` added at the end
MergedCreate(before, after, created) ==
    /\ Len(after) = Len(before) + 1
    /\ after[Len(after)] = created
    /\ \A i \in 1..Len(before) : after[i] = before[i]

\* C22: a successful update of a menu item or a staff member replaces exactly
\* the cached entries with the target id by the backend's entity and keeps
\* every other entry, the order and the length (nothing is inserted for an
\* id that is not cached); a successful delete removes exactly the entries
\* with that id; a successful create appends the new entity at the end.
C22_MergeByPrimaryKey ==
    /\ (ev.op = "updateMenuItem" /\ ev.outcome = "ok") =>
          MergedUpdate(ev.before.menuItems, menuItems,
                       ev.task.call.args.menuItemId, ev.task.resp.data)
    /\ (ev.op = "deleteMenuItem" /\ ev.outcome = "ok") =>
          MergedDelete(ev.before.menuItems, menuItems, ev.task.call.args.menuItemId)
    /\ (ev.op = "createMenuItem" /\ ev.outcome = "ok") =>
          MergedCreate(ev.before.menuItems, menuItems, ev.task.resp.data)
    /\ (ev.op = "updateStaffMember" /\ ev.outcome = "ok") =>
          MergedUpdate(ev.before.staffMembers, staffMembers,
                       ev.task.call.args.userId, ev.task.resp.data)
    /\ (ev.op = "deleteStaffMember" /\ ev.outcome = "ok") =>
          MergedDelete(ev.before.staffMembers, staffMembers, ev.task.call.args.userId)
    /\ (ev.op = "createStaffMember" /\ ev.outcome = "ok") =>
          MergedCreate(ev.before.staffMembers, staffMembers, ev.task.resp.data)

\* an update has succeeded for an item that the cached menu does not hold
C22_Witness ==
    /\ ev.op = "updateMenuItem"
    /\ ev.outcome = "ok"
    /\ menuItems # <<>>
    /\ CountId(menuItems, ev.task.call.args.menuItemId) = 0


\* every entry of `items` with id `id` is `entity`
HoldsEntity(items, id, entity) ==
    \A i \in 1..Len(items) : items[i].id = id => items[i] = entity

\* C23: whenever an update of a menu item or of an order completes, the store
\* holds for that id the entity of the response that has just arrived,
\* whatever an overlapping update of the same id wrote before and whichever
\* of the two was started or served first: the last response to arrive wins.
C23_LastResponseWins ==
    /\ (ev.op = "updateMenuItem" /\ ev.outcome = "ok") =>
          HoldsEntity(menuItems, ev.task.call.args.menuItemId, ev.task.resp.data)
    /\ (ev.op = "updateOrderStatus" /\ ev.outcome = "ok") =>
          HoldsEntity(orders, ev.task.call.args.orderId, ev.task.resp.data)

\* two updates of one order overlapped and the one the backend served first
\* was answered last: the store holds its status, the backend the other's
C23_Witness ==
    /\ ev.op = "updateOrderStatus"
    /\ ev.outcome = "ok"
    /\ \A t \in OverlapTaskIds : posTasks[t] = Idle
    /\ \E o \in dbOrders :
          /\ o.id = ev.task.call.args.orderId
          /\ o.status # ev.task.resp.data.status
          /\ o.status \in OrderStatuses
    /\ HoldsEntity(orders, ev.task.call.args.orderId, ev.task.resp.data)


\* the last n entries of list are, in order, records of the amounts of payments
EndsWithPayments(list, payments, Amount(_)) ==
    /\ Len(list) >= Len(payments)
    /\ \A k \in 1..Len(payments) :
          Amount(list[Len(list) - Len(payments) + k]) = payments[k].amount

\* every cached order with this id is completed and paid
PaidLocally(os, orderId) ==
    \A k \in 1..Len(os) :
        os[k].id = orderId => os[k].status = "completed" /\ os[k].paymentStatus = "paid"

\* this step is taken by the offline processSplitPayment in slot t
OfflineSplitStep(t) ==
    /\ ev'.op = "processSplitPayment"
    /\ posTasks[t].op = "processSplitPayment"
    /\ posTasks[t].offline
    /\ posTasks'[t] # posTasks[t]

\* C24: an offline processSplitPayment with N sub-payments has IndexedDB store
\* one record per sub-payment and, on each success, appends that record to
\* offlinePayments and one 'processPayment' entry to the queue, in list
\* order; it touches the orders only in the step after the N-th record was
\* stored and queued, where it marks the order completed and paid; when a
\* store fails, nothing is appended and the orders stay as they were. At the
\* end the last N entries of all three lists are the N sub-payments in order.
C24_OfflineSplitStoresAll ==
    [][ /\ (ev'.op = "backend" /\ ev'.task.op = "processSplitPayment"
                /\ ev'.task.offline /\ ev'.task.resp.status = "ok") =>
              /\ Len(idb') = Len(idb) + 1
              /\ idb'[Len(idb')].amount = ev'.task.payments[ev'.task.i].amount
              /\ idb'[Len(idb')].orderId = ev'.task.orderId
              /\ SubSeq(idb', 1, Len(idb)) = idb
        /\ \A t \in PosTaskIds : OfflineSplitStep(t) =>
              LET task == posTasks[t]
                  N == Len(task.payments)
              IN  IF task.resp.status = "ok"
                  THEN /\ offlinePayments' = Append(offlinePayments, task.call.args)
                       /\ task.call.args.amount = task.payments[task.i].amount
                       /\ Len(queue') = Len(queue) + 1
                       /\ SubSeq(queue', 1, Len(queue)) = queue
                       /\ queue'[Len(queue')].operationName = "processPayment"
                       /\ queue'[Len(queue')].payload.amount = task.payments[task.i].amount
                       /\ queue'[Len(queue')].payload.orderId = task.orderId
                       /\ task.i < N => (orders' = orders /\ posTasks'[t] # Idle)
                       /\ task.i = N => /\ posTasks'[t] = Idle
                                        /\ ev'.outcome = "ok"
                                        /\ PaidLocally(orders', task.orderId)
                  ELSE /\ ev'.outcome = "thrown"
                       /\ offlinePayments' = offlinePayments
                       /\ queue' = queue
                       /\ orders' = orders
        /\ (ev'.op = "processSplitPayment" /\ ev'.outcome = "ok" /\ ev'.task.offline) =>
              LET RecordAmount(r) == r.amount
                  QueuedAmount(e) == e.payload.amount
              IN  /\ EndsWithPayments(offlinePayments', ev'.task.payments, RecordAmount)
                  /\ EndsWithPayments(idb', ev'.task.payments, RecordAmount)
                  /\ EndsWithPayments(queue', ev'.task.payments, QueuedAmount)
                  /\ WritesIn(ev'.task.log) = Len(ev'.task.payments)
                  /\ PaidLocally(orders', ev'.task.orderId)
      ]_vars

\* an offline split payment of MaxSplit sub-payments has completed
C24_Witness ==
    /\ ev.op = "processSplitPayment"
    /\ ev.outcome = "ok"
    /\ ev.task.offline
    /\ Len(ev.task.payments) = MaxSplit
    /\ Len(offlinePayments) = MaxSplit
    /\ Len(queue) = MaxSplit
    /\ PaidLocally(orders, ev.task.orderId)


\* queue entry e is the deferred replay of the offline payment record r
ReplayOf(e, r) ==
    /\ e.operationName = "processPayment"
    /\ e.payload.orderId = r.orderId
    /\ e.payload.amount = r.amount
    /\ e.payload.paymentMethod = r.paymentMethod

SyncStep(t) ==
    /\ ev'.op = "syncOfflineData"
    /\ posTasks'[t] # posTasks[t]

\* the syncOfflineData in slot t holds the success of the call it awaited at pc
SyncSucceeded(t, pc) ==
    /\ posTasks[t].op = "syncOfflineData"
    /\ posTasks[t].pc = pc
    /\ posTasks[t].resp.status = "ok"

\* C26: syncOfflineData asks for the menu only in a step that holds the
\* drain's success and for the orders only in one that holds the menu; it
\* writes menuItems and orders only when all three calls succeeded, with what
\* the two reads returned; when any of them fails it ends without throwing,
\* error set, isLoading false, menuItems and orders as they were.
C26_SyncRefreshesAfterDrain ==
    [][ \A t \in PosTaskIds : SyncStep(t) =>
            /\ (ev'.outcome = "pending" /\ ev'.task.pc = "processOfflineQueue") =>
                  posTasks[t] = Idle
            /\ (ev'.outcome = "pending" /\ ev'.task.pc = "getMenuItems") =>
                  SyncSucceeded(t, "processOfflineQueue")
            /\ (ev'.outcome = "pending" /\ ev'.task.pc = "getOrders") =>
                  SyncSucceeded(t, "getMenuItems")
            /\ ev'.outcome = "pending" => (menuItems' = menuItems /\ orders' = orders)
            /\ ev'.outcome = "ok" =>
                  /\ SyncSucceeded(t, "getOrders")
                  /\ posTasks[t].log = <<"processOfflineQueue", "getMenuItems", "getOrders">>
                  /\ orders' = posTasks[t].resp.data
                  /\ menuItems' = posTasks[t].menuItems
                  /\ ~posLoading'
            /\ ev'.outcome \notin {"pending", "ok"} =>
                  /\ ev'.outcome = "caught"
                  /\ posTasks[t].resp = Err
                  /\ posError' # NoError
                  /\ ~posLoading'
                  /\ menuItems' = menuItems
                  /\ orders' = orders
      ]_vars

\* the drain failed with a menu and orders loaded before
C26_Witness ==
    /\ ev.op = "syncOfflineData"
    /\ ev.outcome = "caught"
    /\ ev.why = "processOfflineQueue"
    /\ menuItems # <<>>
    /\ orders # <<>>
    /\ posError # NoError


\* how often record r occurs in list
Occurrences(list, r) == Cardinality({k \in 1..Len(list) : list[k] = r})

\* C27: once no call is in flight, every offline payment that processPayment
\* recorded in the local storage is in offlinePayments as often as it was
\* recorded, whatever initialize or syncOfflinePayments ran next to it.
C27_SyncKeepsNewPayments ==
    (\A t \in DOMAIN posTasks : posTasks[t] = Idle) =>
        \A k \in 1..Len(idb) :
            Occurrences(offlinePayments, idb[k]) >= Occurrences(idb, idb[k])


\* an offline processPayment has just ended on a failure
OfflinePaymentFailed ==
    /\ ev.op = "processPayment"
    /\ ev.task.offline
    /\ ev.outcome \in {"caught", "thrown"}

\* C28: an offline processPayment whose storeOfflinePayment rejected has
\* re-thrown with error set and isLoading false, and has left orders,
\* offlinePayments and the queue as they were.
C28_FailedStoreChangesNothing ==
    OfflinePaymentFailed =>
        /\ ev.outcome = "thrown"
        /\ ev.why = "storeOfflinePayment"
        /\ ev.task.log = <<"storeOfflinePayment">>
        /\ posError # NoError
        /\ ~posLoading
        /\ orders = ev.before.orders
        /\ offlinePayments = ev.before.offlinePayments
        /\ queue = ev.before.queue

\* the store of a second offline payment failed after a first was recorded
C28_Witness ==
    /\ OfflinePaymentFailed
    /\ Len(offlinePayments) = 1
    /\ Len(queue) = 1
    /\ Len(idb) = 1
    /\ orders # <<>>


\* C29: in every state of the auth store, whatever calls overlapped,
\* isAuthenticated is true exactly when a user is held.
C29_AuthenticatedIffUser ==
    isAuthenticated <=> (user # Null)

\* a language update that had found a user ended after a sign-out completed
\* in between
C29_Witness ==
    /\ ev.op = "updateUserLanguage"
    /\ ev.outcome = "ok"
    /\ ev.task.pc = "update"
    /\ user = Null
    /\ ~isAuthenticated


\* C30: once no location call is in flight, selectedLocation is null or is
\* one of the entries of locations.
C30_SelectedIsListed ==
    (\A t \in LocTaskIds : locTasks[t] = Idle) =>
        \/ selectedLocation = Null
        \/ \E i \in 1..Len(locations) : locations[i] = selectedLocation


\* no two entries of `list` have the same id
UniqueIds(list) ==
    \A i, j \in 1..Len(list) : list[i].id = list[j].id => i = j

\* C31: the backend giving every created row an id no row has, no entity
\* collection holds two entries with the same id, whatever list refresh ran
\* next to a create.
C31_NoDuplicateIds ==
    /\ UniqueIds(menuItems)
    /\ UniqueIds(staffMembers)
    /\ UniqueIds(locations)


\* some call of the table `tasks` has started and not completed
InFlight(tasks) == \E t \in DOMAIN tasks : tasks[t] # Idle

\* C32: in each store isLoading is true while at least one of its operations
\* has started and not completed, also when several overlap.
C32_LoadingWhileInFlight ==
    /\ InFlight(posTasks) => posLoading
    /\ InFlight(staffTasks) => staffLoading
    /\ InFlight(locTasks) => locLoading
    /\ InFlight(authTasks) => authLoading


\* the queue `q` holds a payment of order `orderId` that is still to be replayed
AwaitsReplay(q, orderId) ==
    \E k \in 1..Len(q) :
        /\ q[k].operationName = "processPayment"
        /\ q[k].payload.orderId = orderId

\* order `orderId` is shown completed and paid in the list `os`
ShownPaid(os, orderId) ==
    \E i \in 1..Len(os) :
        /\ os[i].id = orderId
        /\ os[i].status = "completed"
        /\ os[i].paymentStatus = "paid"

\* C33: no step takes an order that is shown paid while its offline payment
\* waits in the queue back to a state in which it is not shown paid, as long
\* as the payment is still waiting.
C33_OfflinePaidStaysPaid ==
    [][\A o \in OrderIds :
          (/\ ShownPaid(orders, o)
           /\ AwaitsReplay(queue, o)
           /\ AwaitsReplay(queue', o))
              => ShownPaid(orders', o)]_vars


PaymentOps == {"processPayment", "processSplitPayment"}

\* the calls of the offline branch and those of the online branch
OfflineCalls == {"storeOfflinePayment", "addToQueue"}
OnlineCalls == {"createPayment", "updateOrderStatus", "getOrders"}

\* the calls `task` has made all belong to the branch that the isOffline it
\* read at its start selects
OneBranch(task) ==
    \A k \in 1..Len(task.log) :
        task.log[k] \in (IF task.offline THEN OfflineCalls ELSE OnlineCalls)

\* C34: a processPayment or processSplitPayment call makes the calls of one
\* branch only, the one selected by isOffline as read at its start, whatever
\* setOfflineStatus did while the call was suspended.
C34_BranchChosenOnce ==
    /\ \A t \in PosTaskIds :
          (posTasks[t] # Idle /\ posTasks[t].op \in PaymentOps) => OneBranch(posTasks[t])
    /\ ev.op \in PaymentOps => OneBranch(ev.task)

\* a split payment of two parts completed offline although the flag had been
\* set back to online during the call
C34_Witness ==
    /\ ev.op = "processSplitPayment"
    /\ ev.outcome = "ok"
    /\ ev.task.offline
    /\ ~isOffline
    /\ Len(ev.task.payments) >= 2
    /\ Len(ev.task.log) >= 4


RECURSIVE Restocked(_, _)
\* the quantities of the restocks of item m that the transactions txs record
Restocked(txs, m) ==
    IF txs = <<>> THEN 0
    ELSE Restocked(Tail(txs), m)
         + (IF Head(txs).menuItemId = m /\ Head(txs).type = "restock"
            THEN Head(txs).quantityChange ELSE 0)

\* C35: the stock the backend holds for a menu item that started at 0 is the
\* sum of the quantities of the restocks carried out on it, whether or not
\* the restocks overlapped.
C35_NoRestockLost ==
    \A item \in dbMenu :
        item.currentStock = Restocked(dbTransactions, item.id)


\* `list` without its entries of id `id`, the others in their order
WithoutId(list, id) ==
    LET Other(e) == e.id # id IN SelectSeq(list, Other)

\* C36: a deleteLocation that succeeded has removed the location from
\* locations and, when it was the selected one, selected the first remaining
\* location (none when none remains), else kept the selection; one that
\* failed has left locations and selectedLocation as they were.
C36_DeleteLocationEffect ==
    ev.op = "deleteLocation" =>
        LET was == ev.before
            id == ev.task.id
        IN  /\ ev.outcome = "ok" =>
                /\ locations = WithoutId(was.locations, id)
                /\ selectedLocation =
                      IF was.selectedLocation # Null /\ was.selectedLocation.id = id
                      THEN IF Len(locations) > 0 THEN locations[1] ELSE Null
                      ELSE was.selectedLocation
            /\ ev.outcome = "thrown" =>
                /\ locations = was.locations
                /\ selectedLocation = was.selectedLocation

\* the selected location was deleted and the first remaining one took over
C36_Witness ==
    /\ ev.op = "deleteLocation"
    /\ ev.outcome = "ok"
    /\ ev.before.selectedLocation # Null
    /\ ev.before.selectedLocation.id = ev.task.id
    /\ Len(ev.before.locations) = 2
    /\ Len(locations) = 1
    /\ selectedLocation = locations[1]

====
